---- MODULE Spec2Model ----
(***************************************************************************)
(* TrackNado: the HubBuilder (tracknado/builder.py), the Track model       *)
(* (tracknado/models.py) and the hierarchy compiler and renderer           *)
(* (tracknado/api.py: TrackDesign, HubGenerator).                          *)
(*                                                                         *)
(* Track objects live in a heap and builders hold references to them, as   *)
(* Python lists hold references.  Python None is the string NoneStr for an  *)
(* optional string and the empty tuple for an optional Path or colour.     *)
(* A Path is a record [abs, dir, stem, suffix]; its str() form is a         *)
(* sequence of tokens.                                                     *)
(***************************************************************************)
EXTENDS Integers, Sequences, FiniteSets, TLC

VARIABLES
    heap,       \* the Track objects created so far, by identity
    builders,   \* the HubBuilder objects, by name
    lastOp,     \* the call that produced the current state
    nops,       \* number of configuration calls made so far
    restored,   \* the builder returned by the last from_json(to_json(b))
    assoc,      \* the two builders compared by the last associativity run
    run,        \* the build or compile in progress: its position
    events,     \* the steps the builds have taken, in order
    sidecar,    \* the contents of <outdir>/tracknado_config.json
    table,      \* the metadata table (DataFrame) handed to the compiler
    axes,       \* the keyword arguments of a direct from_design call
    design,     \* the TrackDesign the compiler produced
    hub,        \* what the HubGenerator put into the hub
    first       \* the outcome of the first build of a scenario

vars == <<heap, builders, lastOp, nops, restored, assoc,
          run, events, sidecar, table, axes, design, hub, first>>

\* the state of the build pipeline
pipeline == <<run, events, sidecar, table, axes, design, hub, first>>

----------------------------------------------------------------------------
(* Bounds of the model *)

MaxTracks == 2
MaxOps == 3

----------------------------------------------------------------------------
(* Values *)

NoneStr == "<None>"
NoPath == <<>>

Range(s) == {s[i] : i \in 1..Len(s)}

\* bool(x) of an optional string: None and "" are falsy
Truthy(s) == s # NoneStr /\ s # ""

BuilderIds == {"A", "B", "C"}

\* Column names, listed in the order Python's sorted() gives them
ColumnNames == <<"assay", "cell", "mark">>
Columns == Range(ColumnNames)
Rank(c) == CHOOSE i \in 1..Len(ColumnNames) : ColumnNames[i] = c

MkPath(abs, dir, stem, suffix) ==
    [abs |-> abs, dir |-> dir, stem |-> stem, suffix |-> suffix]

InputPaths ==
    { MkPath(TRUE, <<"data", "K562">>, "a", "bigWig"),
      MkPath(TRUE, <<"data", "HepG2">>, "a", "bed"),
      MkPath(FALSE, <<>>, "b", "gtf") }

ChromSizesPaths == { MkPath(TRUE, <<"ref">>, "hg38", "sizes") }

EmptyMeta == [k \in {} |-> ""]
CommonMetadata == { EmptyMeta, [k \in {"cell"} |-> "K562"] }

\* nothing built, compiled or rendered yet
NoDesign == [status |-> "none"]
NoHub == [status |-> "none"]
NoJson == <<>>
NoAxes == [subgroup_by |-> <<>>, supergroup_by |-> <<>>, overlay_by |-> <<>>,
           color_by |-> NoneStr]
\* fs: the files that exist besides the tracks
Idle == [pc |-> "idle", b |-> "A", i |-> 0, n |-> 0, fs |-> {}]

Palettes == {"tab20", "Set1"}
ColorColumns == {"", "cell", "mark"}
Extractors == {"from_parent_dirs", "with_static_metadata"}

----------------------------------------------------------------------------
(* models.Track and builder.HubBuilder *)

Track(path, metadata) ==
    [path |-> path, name |-> NoneStr, metadata |-> metadata,
     color |-> <<>>, track_type |-> NoneStr, original_path |-> NoPath]

HubBuilder ==
    [tracks |-> <<>>,
     group_by_cols |-> <<>>,
     supergroup_by_cols |-> <<>>,
     overlay_by_cols |-> <<>>,
     color_by_col |-> NoneStr,
     color_palette |-> "tab20",
     convert_files |-> FALSE,
     chrom_sizes |-> NoPath,
     metadata_extractors |-> <<>>]

\* Python's set(xs) and sorted(S) on column names
set(xs) == Range(xs)

RECURSIVE sorted(_)
sorted(S) ==
    IF S = {} THEN <<>>
    ELSE LET m == CHOOSE x \in S : \A y \in S : Rank(x) <= Rank(y)
         IN  <<m>> \o sorted(S \ {m})

----------------------------------------------------------------------------
(* Configuration calls *)

Did(op, a, b) == lastOp' = [op |-> op, a |-> a, b |-> b]

\* a scenario makes at most MaxOps calls and ends with its comparison run
CanConfigure == nops < MaxOps /\ assoc = <<>>

\* add_tracks(paths, **common_metadata), one path per call
AddTracks(b, p, md) ==
    /\ CanConfigure
    /\ Len(heap) < MaxTracks
    /\ heap' = Append(heap, Track(p, md))
    /\ builders' = [builders EXCEPT ![b].tracks = Append(@, Len(heap) + 1)]
    /\ nops' = nops + 1
    /\ Did("add_tracks", b, b)
    /\ UNCHANGED <<restored, assoc, pipeline>>

RECURSIVE extendUnique(_, _)
extendUnique(xs, columns) ==
    IF columns = <<>> THEN xs
    ELSE extendUnique(IF Head(columns) \in Range(xs) THEN xs ELSE Append(xs, Head(columns)),
                      Tail(columns))

\* list.extend(columns)
extend(xs, columns) == xs \o columns

\* return self
Self(b) == b

\* group_by(*columns, as_supertrack)
GroupBy(b, columns, as_supertrack) ==
    /\ CanConfigure
    /\ builders' =
         IF as_supertrack
         THEN [builders EXCEPT ![b].supergroup_by_cols = extend(@, columns)]
         ELSE [builders EXCEPT ![b].group_by_cols = extend(@, columns)]
    /\ nops' = nops + 1
    /\ Did("group_by", b, b)
    /\ UNCHANGED <<heap, restored, assoc, pipeline>>

\* overlay_by(*columns)
OverlayBy(b, columns) ==
    /\ CanConfigure
    /\ builders' = [builders EXCEPT ![b].overlay_by_cols = extend(@, columns)]
    /\ nops' = nops + 1
    /\ Did("overlay_by", b, b)
    /\ UNCHANGED <<heap, restored, assoc, pipeline>>

\* b.group_by(*columns, as_supertrack).overlay_by(*overlay): the second call is
\* made on what the first returns
GroupByThenOverlayBy(b, columns, as_supertrack, overlay) ==
    /\ nops + 2 <= MaxOps /\ assoc = <<>>
    /\ LET grouped ==
             IF as_supertrack
             THEN [builders EXCEPT ![b].supergroup_by_cols = extend(@, columns)]
             ELSE [builders EXCEPT ![b].group_by_cols = extend(@, columns)]
       IN  builders' = [grouped EXCEPT ![Self(b)].overlay_by_cols = extend(@, overlay)]
    /\ nops' = nops + 2
    /\ Did("overlay_by", Self(b), Self(b))
    /\ UNCHANGED <<heap, restored, assoc, pipeline>>

\* color_by(column, palette)
ColorBy(b, c, palette) ==
    /\ CanConfigure
    /\ builders' = [builders EXCEPT ![b].color_by_col = c,
                                    ![b].color_palette = palette]
    /\ nops' = nops + 1
    /\ Did("color_by", b, b)
    /\ UNCHANGED <<heap, restored, assoc, pipeline>>

\* add_tracks_from_df(df, fn_col='fn'), one row per call.  A row is
\* [fn, name, ext, meta]; name = NoneStr is a frame without a usable name cell
\* and ext = NoneStr a frame without an ext column (ext is then the suffix).
DfRows ==
    { [fn |-> MkPath(TRUE, <<"data", "K562">>, "a", "bigWig"), name |-> "s1",
       ext |-> NoneStr, meta |-> [k \in {"cell"} |-> "K562"]],
      [fn |-> MkPath(TRUE, <<"data", "HepG2">>, "a", "bed"), name |-> NoneStr,
       ext |-> "bed", meta |-> EmptyMeta] }

TrackFromRow(row) ==
    [Track(row.fn, row.meta) EXCEPT
        !.name = row.name,
        !.track_type = IF row.ext = NoneStr THEN row.fn.suffix ELSE row.ext]

AddTracksFromDf(b, row) ==
    /\ CanConfigure
    /\ Len(heap) < MaxTracks
    /\ heap' = Append(heap, TrackFromRow(row))
    /\ builders' = [builders EXCEPT ![b].tracks = Append(@, Len(heap) + 1)]
    /\ nops' = nops + 1
    /\ Did("add_tracks_from_df", b, b)
    /\ UNCHANGED <<restored, assoc, pipeline>>

\* with_metadata_extractor(fn)
WithMetadataExtractor(b, fn) ==
    /\ CanConfigure
    /\ builders' = [builders EXCEPT ![b].metadata_extractors = Append(@, fn)]
    /\ nops' = nops + 1
    /\ Did("with_metadata_extractor", b, b)
    /\ UNCHANGED <<heap, restored, assoc, pipeline>>

\* with_convert_files(enabled)
WithConvertFiles(b, enabled) ==
    /\ CanConfigure
    /\ builders' = [builders EXCEPT ![b].convert_files = enabled]
    /\ nops' = nops + 1
    /\ Did("with_convert_files", b, b)
    /\ UNCHANGED <<heap, restored, assoc, pipeline>>

\* with_chrom_sizes(path)
WithChromSizes(b, p) ==
    /\ CanConfigure
    /\ builders' = [builders EXCEPT ![b].chrom_sizes = <<p>>]
    /\ nops' = nops + 1
    /\ Did("with_chrom_sizes", b, b)
    /\ UNCHANGED <<heap, restored, assoc, pipeline>>

----------------------------------------------------------------------------
(* merge *)

MergeColsOtherOnly(mine, theirs) == mine \o sorted(set(theirs))

MergeColsConcat(mine, theirs) == mine \o theirs

\* the union of one grouping axis: sorted(list(set(mine + theirs)))
MergeCols(mine, theirs) == sorted(set(mine \o theirs))

\* for ex in other.metadata_extractors: if ex not in self...: append
RECURSIVE MergeExtractors(_, _)
MergeExtractors(mine, theirs) ==
    IF theirs = <<>> THEN mine
    ELSE MergeExtractors(
            IF Head(theirs) \in Range(mine) THEN mine ELSE Append(mine, Head(theirs)),
            Tail(theirs))

MergeTracksDedup(mine, theirs) ==
    mine \o SelectSeq(theirs, LAMBDA t : \A i \in Range(mine) : heap[i].path # heap[t].path)

\* self.tracks.extend(other.tracks)
MergeTracks(mine, theirs) == mine \o theirs

MergeColorLastWins(self, other) ==
    IF Truthy(other.color_by_col)
    THEN [col |-> other.color_by_col, palette |-> other.color_palette]
    ELSE [col |-> self.color_by_col, palette |-> self.color_palette]

\* "Colors: use other's if not set here"
MergeColor(self, other) ==
    IF ~Truthy(self.color_by_col)
    THEN [col |-> other.color_by_col, palette |-> other.color_palette]
    ELSE [col |-> self.color_by_col, palette |-> self.color_palette]

\* the builder self after self.merge(other)
MergeInto(self, other) ==
    [self EXCEPT
        !.tracks = MergeTracks(self.tracks, other.tracks),
        !.group_by_cols = MergeCols(self.group_by_cols, other.group_by_cols),
        !.supergroup_by_cols = MergeCols(self.supergroup_by_cols, other.supergroup_by_cols),
        !.overlay_by_cols = MergeCols(self.overlay_by_cols, other.overlay_by_cols),
        !.metadata_extractors = MergeExtractors(self.metadata_extractors, other.metadata_extractors),
        !.color_by_col = MergeColor(self, other).col,
        !.color_palette = MergeColor(self, other).palette]

Merge(a, b) ==
    /\ CanConfigure
    /\ builders' = [builders EXCEPT ![a] = MergeInto(builders[a], builders[b])]
    /\ nops' = nops + 1
    /\ Did("merge", a, b)
    /\ UNCHANGED <<heap, restored, assoc, pipeline>>

----------------------------------------------------------------------------
(* to_json / from_json *)

JsonNull == "<null>"

RECURSIVE JoinDirs(_)
JoinDirs(d) == IF d = <<>> THEN <<>> ELSE <<d[1], "/">> \o JoinDirs(Tail(d))

\* str(path): the text pydantic writes for a Path
str(p) ==
    (IF p.abs THEN <<"/">> ELSE <<>>)
      \o JoinDirs(p.dir)
      \o (IF p.suffix = "" THEN <<p.stem>> ELSE <<p.stem, ".", p.suffix>>)

SetMax(S) == CHOOSE x \in S : \A y \in S : y <= x

\* pathlib.Path(text); file names hold at most one dot
Path(s) ==
    LET abs == Len(s) > 0 /\ s[1] = "/"
        body == IF abs THEN Tail(s) ELSE s
        slashes == {i \in 1..Len(body) : body[i] = "/"}
        lastSlash == IF slashes = {} THEN 0 ELSE SetMax(slashes)
        dirToks == SubSeq(body, 1, lastSlash)
        name == SubSeq(body, lastSlash + 1, Len(body))
    IN  [abs |-> abs,
         dir |-> SelectSeq(dirToks, LAMBDA t : t # "/"),
         stem |-> name[1],
         suffix |-> IF Len(name) >= 3 THEN name[Len(name)] ELSE ""]

DumpStr(x) == IF x = NoneStr THEN JsonNull ELSE x
LoadStr(x) == IF x = JsonNull THEN NoneStr ELSE x
DumpPath(op) == IF op = NoPath THEN <<>> ELSE str(op[1])
LoadPath(t) == IF t = <<>> THEN NoPath ELSE <<Path(t)>>

DumpTrackNoType(t) ==
    [path |-> str(t.path), name |-> DumpStr(t.name), metadata |-> t.metadata,
     color |-> t.color, track_type |-> JsonNull]

\* Track.model_dump: the declared fields only
DumpTrack(t) ==
    [path |-> str(t.path), name |-> DumpStr(t.name), metadata |-> t.metadata,
     color |-> t.color, track_type |-> DumpStr(t.track_type)]

\* Track.model_validate: private attributes start unset
LoadTrack(j) ==
    [path |-> Path(j.path), name |-> LoadStr(j.name), metadata |-> j.metadata,
     color |-> j.color, track_type |-> LoadStr(j.track_type),
     original_path |-> NoPath]

\* to_json(): model_dump_json; metadata_extractors has exclude=True
to_json(b, h) ==
    [tracks |-> [i \in 1..Len(b.tracks) |-> DumpTrack(h[b.tracks[i]])],
     group_by_cols |-> b.group_by_cols,
     supergroup_by_cols |-> b.supergroup_by_cols,
     overlay_by_cols |-> b.overlay_by_cols,
     color_by_col |-> DumpStr(b.color_by_col),
     color_palette |-> b.color_palette,
     convert_files |-> b.convert_files,
     chrom_sizes |-> DumpPath(b.chrom_sizes)]

\* from_json(data): model_validate_json; tracks are new Track objects, held
\* here by value
from_json(j) ==
    [tracks |-> [i \in 1..Len(j.tracks) |-> LoadTrack(j.tracks[i])],
     group_by_cols |-> j.group_by_cols,
     supergroup_by_cols |-> j.supergroup_by_cols,
     overlay_by_cols |-> j.overlay_by_cols,
     color_by_col |-> LoadStr(j.color_by_col),
     color_palette |-> j.color_palette,
     convert_files |-> j.convert_files,
     chrom_sizes |-> LoadPath(j.chrom_sizes),
     metadata_extractors |-> <<>>]

\* new_builder = HubBuilder.from_json(b.to_json())
RoundTrip(b) ==
    /\ CanConfigure
    /\ restored' = from_json(to_json(builders[b], heap))
    /\ nops' = nops + 1
    /\ Did("from_json", b, b)
    /\ UNCHANGED <<heap, builders, assoc, pipeline>>

----------------------------------------------------------------------------
(* Track colors *)

\* colors a caller or a JSON document may give: none, in range, out of range
Colors ==
    { <<>>, <<0, 0, 0>>, <<255, 128, 0>>, <<300, 0, 0>>, <<0, -1, 0>> }

validate_color_rangeUpperOnly(v) == v = <<>> \/ \A i \in 1..Len(v) : v[i] <= 255

\* Track.validate_color_range(v): TRUE when v is returned, FALSE when
\* ValueError is raised.  None is <<>>.
validate_color_range(v) ==
    ~(v # <<>> /\ ~(\A i \in 1..Len(v) : 0 <= v[i] /\ v[i] <= 255))

\* t = Track(path=p, color=c): the object exists only when validation passes
ConstructTrack(p, c) ==
    /\ CanConfigure
    /\ Len(heap) < MaxTracks
    /\ IF validate_color_range(c)
       THEN /\ heap' = Append(heap, [Track(p, EmptyMeta) EXCEPT !.color = c])
            /\ Did("Track", "A", "A")
       ELSE /\ heap' = heap
            /\ Did("ValidationError", "A", "A")
    /\ nops' = nops + 1
    /\ UNCHANGED <<builders, restored, assoc, pipeline>>

\* the JSON text of builder b with the color of its i-th track set to c
\* (i = 0: the text as written)
JsonWithColor(b, i, c) ==
    LET j == to_json(builders[b], heap)
    IN  [j EXCEPT !.tracks = [k \in 1..Len(j.tracks) |->
                                IF k = i THEN [j.tracks[k] EXCEPT !.color = c] ELSE j.tracks[k]]]

\* model_validate_json validates every track of the document
ValidJson(j) == \A i \in 1..Len(j.tracks) : validate_color_range(j.tracks[i].color)

\* new_builder = HubBuilder.from_json(data), data a document whose i-th track
\* carries the color c
FromJson(b, i, c) ==
    /\ CanConfigure
    /\ i \in 0..Len(builders[b].tracks)
    /\ nops' = nops + 1
    /\ UNCHANGED <<heap, builders, assoc, pipeline>>
    /\ LET j == JsonWithColor(b, i, c)
       IN  IF ValidJson(j)
           THEN /\ Did("from_json", b, b)
                /\ restored' = from_json(j)
           ELSE /\ Did("ValidationError", b, b)
                /\ restored' = restored


----------------------------------------------------------------------------
(* Specification of the builder's configuration calls *)

ConfigBuilders == {"A", "B"}

Init ==
    /\ heap = <<>>
    /\ builders = [b \in BuilderIds |-> HubBuilder]
    /\ lastOp = [op |-> "init", a |-> "A", b |-> "A"]
    /\ nops = 0
    /\ restored = HubBuilder
    /\ assoc = <<>>
    /\ run = Idle
    /\ events = <<>>
    /\ sidecar = NoJson
    /\ table = <<>>
    /\ axes = NoAxes
    /\ design = NoDesign
    /\ hub = NoHub
    /\ first = NoDesign

Next ==
    \/ \E b \in ConfigBuilders, p \in InputPaths, md \in CommonMetadata : AddTracks(b, p, md)
    \/ \E b \in ConfigBuilders, row \in DfRows : AddTracksFromDf(b, row)
    \/ \E b \in ConfigBuilders, fn \in Extractors : WithMetadataExtractor(b, fn)
    \/ \E b \in ConfigBuilders, c \in Columns, s \in BOOLEAN : GroupBy(b, <<c>>, s)
    \/ \E b \in ConfigBuilders, c \in Columns : OverlayBy(b, <<c>>)
    \/ \E b \in ConfigBuilders, c \in ColorColumns, pal \in Palettes : ColorBy(b, c, pal)
    \/ \E b \in ConfigBuilders, e \in BOOLEAN : WithConvertFiles(b, e)
    \/ \E b \in ConfigBuilders, p \in ChromSizesPaths : WithChromSizes(b, p)
    \/ \E a \in ConfigBuilders, b \in ConfigBuilders : Merge(a, b)
    \/ \E b \in ConfigBuilders : RoundTrip(b)

Spec == Init /\ [][Next]_vars

\* the column lists of a group_by or overlay_by call: none, one, several, and
\* a column repeated
ColumnLists == { <<>>, <<"cell">>, <<"assay", "cell">>, <<"cell", "cell">> }

\* axis declarations on builders that hold tracks and settings
NextAxes ==
    \/ \E b \in ConfigBuilders, p \in InputPaths, md \in CommonMetadata : AddTracks(b, p, md)
    \/ \E b \in ConfigBuilders, columns \in ColumnLists, s \in BOOLEAN : GroupBy(b, columns, s)
    \/ \E b \in ConfigBuilders, columns \in ColumnLists : OverlayBy(b, columns)
    \/ \E b \in ConfigBuilders, columns \in ColumnLists, s \in BOOLEAN, overlay \in ColumnLists :
           GroupByThenOverlayBy(b, columns, s, overlay)
    \/ \E b \in ConfigBuilders, c \in ColorColumns, pal \in Palettes : ColorBy(b, c, pal)
    \/ \E b \in ConfigBuilders, e \in BOOLEAN : WithConvertFiles(b, e)

SpecAxes == Init /\ [][NextAxes]_vars

\* the calls that create Track objects
NextTracks ==
    \/ \E b \in ConfigBuilders, p \in InputPaths, md \in CommonMetadata : AddTracks(b, p, md)
    \/ \E b \in ConfigBuilders, row \in DfRows : AddTracksFromDf(b, row)
    \/ \E p \in InputPaths, c \in Colors : ConstructTrack(p, c)
    \/ \E b \in ConfigBuilders, i \in 0..MaxTracks, c \in Colors : FromJson(b, i, c)

SpecTracks == Init /\ [][NextTracks]_vars

----------------------------------------------------------------------------
(* Associativity of merge: two runs from the same three builders *)

\* the builders after a.merge(b)
MergeB(bs, a, b) == [bs EXCEPT ![a] = MergeInto(bs[a], bs[b])]

\* Two runs from the current state of three different builders.
\* left: a.merge(b); a.merge(c).   right: b.merge(c); a.merge(b).
AssocRun(a, b, c) ==
    /\ assoc = <<>>
    /\ a # b /\ b # c /\ a # c
    /\ assoc' = << MergeB(MergeB(builders, a, b), a, c)[a],
                   MergeB(MergeB(builders, b, c), a, b)[a] >>
    /\ Did("assoc", a, b)
    /\ UNCHANGED <<heap, builders, nops, restored, pipeline>>

NextAssoc ==
    \/ \E b \in BuilderIds, c \in Columns, s \in BOOLEAN : GroupBy(b, <<c>>, s)
    \/ \E b \in BuilderIds, c \in Columns : OverlayBy(b, <<c>>)
    \/ \E b \in BuilderIds, c \in ColorColumns : ColorBy(b, c, "tab20")
    \/ \E a \in BuilderIds, b \in BuilderIds, c \in BuilderIds : AssocRun(a, b, c)

SpecAssoc == Init /\ [][NextAssoc]_vars

----------------------------------------------------------------------------
(* The metadata table and the grouping keys (api.py) *)

\* a missing cell of the DataFrame
NaN == "<NaN>"

\* a row without the column (no tag)
NoTag == <<>>

EmptyDict == [k \in {} |-> <<>>]

\* Cell values, listed in the order Python sorts them
ValueNames ==
    <<"ATAC", "ChIP", "GM12878", "H3K27ac", "HepG2", "K562",
      "adult", "converted", "female", "liver", "rep1">>
VRank(v) == CHOOSE i \in 1..Len(ValueNames) : ValueNames[i] = v

RECURSIVE Flatten(_)
Flatten(items) == IF items = <<>> THEN <<>> ELSE Head(items) \o Flatten(Tail(items))

get_hashFirstItem(items) == <<"[">> \o Head(items) \o <<"]">>

\* get_hash(obj): the digest of json.dumps(obj), kept as the JSON text: the
\* items of the tuple between brackets.  An item is a token sequence: <<v>>
\* for a cell value, the digest itself for a supertrack key.
get_hash(items) == <<"[">> \o Flatten(items) \o <<"]">>

Val(row, c) == IF c \in DOMAIN row.vals THEN row.vals[c] ELSE NaN

RowValues(row, cols) == [i \in 1..Len(cols) |-> Val(row, cols[i])]

Items(values) == [i \in 1..Len(values) |-> <<values[i]>>]

IsNull(row, cols) == \E i \in 1..Len(cols) : Val(row, cols[i]) = NaN

Indices(rows) == 1..Len(rows)

\* the keys df.groupby(cols) iterates over: rows with a NaN key are dropped
GroupKeys(rows, cols) ==
    {RowValues(rows[i], cols) : i \in {j \in Indices(rows) : ~IsNull(rows[j], cols)}}

TupleLess(u, v) ==
    \E i \in 1..Len(u) :
        /\ \A j \in 1..(i - 1) : u[j] = v[j]
        /\ VRank(u[i]) < VRank(v[i])

\* groupby iterates its keys in sorted order
RECURSIVE SortTuples(_)
SortTuples(S) ==
    IF S = {} THEN <<>>
    ELSE LET m == CHOOSE u \in S : \A v \in S \ {u} : TupleLess(u, v)
         IN  <<m>> \o SortTuples(S \ {m})

\* get_hash_for_df on the column list cols, for one row; "supertrack" is the
\* row's supertrack digest, any other column a cell value
TagItems(row, cols) ==
    [i \in 1..Len(cols) |->
        IF cols[i] = "supertrack" THEN row.supertrack
        ELSE IF cols[i] = "ext" THEN <<row.ext>>
        ELSE <<Val(row, cols[i])>>]

----------------------------------------------------------------------------
(* TrackFiles and TrackDesign (api.py) *)

CoreColumns == {"fn", "path", "name", "ext"}

TableColumns(rows) == CoreColumns \cup UNION {DOMAIN rows[i].vals : i \in Indices(rows)}

\* TrackFiles.get_file_attributes: df["ext"].replace(extension_mapping)
ReplaceExt(ext) ==
    CASE ext = "bw" -> "bigWig"
      [] ext = "bb" -> "bigBed"
      [] ext = "bigbed" -> "bigBed"
      [] ext = "bigwig" -> "bigWig"
      [] OTHER -> ext

\* pathlib.Path(fn).name on the text of a path: what follows the last "/"
Basename(fn) ==
    LET slashes == {i \in 1..Len(fn) : fn[i] = "/"}
    IN  IF slashes = {} THEN fn ELSE SubSeq(fn, SetMax(slashes) + 1, Len(fn))

\* duplicate_counts[row.basename] when the loop of fix_duplicate_names is at row i
Occurrence(files, i) ==
    Cardinality({j \in 1..i : files[j].basename = files[i].basename})

\* TrackFiles.fix_duplicate_names: from the second occurrence of a basename on,
\* name becomes name_k and basename becomes basename_k.ext
fix_duplicate_names(files) ==
    [i \in Indices(files) |->
        LET k == Occurrence(files, i)
        IN  IF k > 1
            THEN [files[i] EXCEPT
                    !.name_suffix = <<"_", ToString(k)>>,
                    !.basename = @ \o <<"_", ToString(k), ".", files[i].ext>>]
            ELSE files[i]]

\* the deduplicate argument of TrackFiles: build and from_design leave it at
\* its default
deduplicate == FALSE

\* TrackFiles(design): the rows TrackDesign receives; a "bed" row without
\* convert_files raises.  A row's name is name followed by name_suffix.
TrackFiles(rows) ==
    LET attributes == [i \in Indices(rows) |->
                         [fn |-> rows[i].fn, name |-> rows[i].name,
                          ext |-> ReplaceExt(rows[i].ext), vals |-> rows[i].vals,
                          basename |-> Basename(rows[i].fn), name_suffix |-> <<>>]]
        files == IF deduplicate THEN fix_duplicate_names(attributes) ELSE attributes
    IN  IF \E i \in Indices(attributes) : attributes[i].ext = "bed"
        THEN [status |-> "ValueError", files |-> attributes]
        ELSE [status |-> "ok", files |-> files]

Fail(d, error, where) == [d EXCEPT !.status = error, !.failed_in = where]

HasColumnsAlways(d, cols) == TRUE

\* assert all([c in self.details.columns for c in cols])
HasColumns(d, cols) == Range(cols) \subseteq d.columns

\* the design before any step of TrackDesign.__init__
NewDesign(files, a) ==
    [status |-> "ok",
     failed_in |-> "",
     details |-> [i \in Indices(files) |->
                    [fn |-> files[i].fn, name |-> files[i].name, ext |-> files[i].ext,
                     basename |-> files[i].basename, name_suffix |-> files[i].name_suffix,
                     vals |-> files[i].vals, supertrack |-> NoTag,
                     composite |-> NoTag, overlay |-> NoTag,
                     subgroup_names |-> <<>>, color |-> <<>>]],
     columns |-> TableColumns(files),
     supertrack_columns |-> a.supergroup_by,
     overlay_columns |-> a.overlay_by,
     subgroup_columns |-> a.subgroup_by,
     color_by |-> a.color_by,
     subgroup_definitions |-> <<>>,
     super_tracks |-> EmptyDict,
     composite_tracks |-> EmptyDict,
     overlay_tracks |-> EmptyDict]

\* _add_subgroup_definitions_to_df: one definition per column, over rows
Definitions(rows, subgroup_by) ==
    [i \in 1..Len(subgroup_by) |->
        [name |-> subgroup_by[i],
         mapping |-> {Val(rows[j], subgroup_by[i]) : j \in Indices(rows)}]]

RowsOfGroup(rows, cols, key) == SelectSeq(rows, LAMBDA r : RowValues(r, cols) = key)

RECURSIVE ApplyGroups(_, _, _, _)
\* groupby(cols).apply(_add_subgroup_definitions_to_df): the rows of each group
\* in key order, and the definitions each call appends
ApplyGroups(rows, cols, keys, subgroup_by) ==
    IF keys = <<>> THEN [rows |-> <<>>, defs |-> <<>>]
    ELSE LET g == RowsOfGroup(rows, cols, Head(keys))
             rest == ApplyGroups(rows, cols, Tail(keys), subgroup_by)
         IN  [rows |-> [i \in Indices(g) |->
                          [g[i] EXCEPT !.subgroup_names = subgroup_by]] \o rest.rows,
              defs |-> Definitions(g, subgroup_by) \o rest.defs]

OverlapsNever(subgroup_by, supergroup_by) == FALSE

\* any(subgroup in supergroup_by for subgroup in subgroup_by)
Overlaps(subgroup_by, supergroup_by) ==
    \E i \in Indices(subgroup_by) : subgroup_by[i] \in Range(supergroup_by)

\* _add_subgroupings
AddSubgroupings(d) ==
    LET sub == d.subgroup_columns
        sup == d.supertrack_columns
    IN  IF d.status # "ok" \/ sub = <<>> THEN d
        ELSE IF ~HasColumns(d, sub)
        THEN Fail(d, "AssertionError", "_add_subgroupings")
        ELSE IF sup # <<>>
        THEN IF Overlaps(sub, sup)
             THEN Fail(d, "AssertionError", "_add_subgroupings")
             ELSE IF ~HasColumns(d, sup)
             THEN Fail(d, "KeyError", "_add_subgroupings")
             ELSE LET r == ApplyGroups(d.details, sup,
                                       SortTuples(GroupKeys(d.details, sup)), sub)
                  IN  [d EXCEPT !.details = r.rows,
                                !.subgroup_definitions = r.defs,
                                !.columns = @ \cup {"subgroup_names", "subgroup_definition"}]
        ELSE [d EXCEPT
                !.details = [i \in Indices(d.details) |->
                               [d.details[i] EXCEPT !.subgroup_names = sub]],
                !.subgroup_definitions = Definitions(d.details, sub),
                !.columns = @ \cup {"subgroup_names", "subgroup_definition"}]

\* _get_super_tracks
GetSuperTracks(d) ==
    LET sup == d.supertrack_columns
        keys == GroupKeys(d.details, sup)
    IN  IF d.status # "ok" \/ sup = <<>> THEN d
        ELSE IF ~HasColumns(d, sup)
        THEN Fail(d, "AssertionError", "_get_super_tracks")
        ELSE [d EXCEPT !.super_tracks =
                [h \in {get_hash(Items(k)) : k \in keys} |->
                    [name |-> CHOOSE k \in keys : get_hash(Items(k)) = h]]]

\* _add_supertrack_indicators
AddSupertrackIndicators(d) ==
    LET sup == d.supertrack_columns
    IN  IF d.status # "ok" \/ sup = <<>> THEN d
        ELSE [d EXCEPT
                !.details = [i \in Indices(d.details) |->
                               [d.details[i] EXCEPT
                                  !.supertrack = get_hash(TagItems(d.details[i], sup))]],
                !.columns = @ \cup {"supertrack"}]

DimensionSlots == <<"dimX", "dimY", "dimA", "dimB", "dimC", "dimD">>

\* dict(zip(slots, subgroup columns)): zip stops at the shorter list
Dimensions(sub) ==
    [i \in 1..(IF Len(sub) < Len(DimensionSlots) THEN Len(sub) ELSE Len(DimensionSlots)) |->
        <<DimensionSlots[i], sub[i]>>]

\* _get_composite_tracks
GetCompositeTracks(d) ==
    LET rows == d.details
        sub == d.subgroup_columns
        withSuper == {<<rows[i].supertrack, rows[i].ext>> : i \in Indices(rows)}
        byExt == {rows[i].ext : i \in Indices(rows)}
    IN  IF d.status # "ok" THEN d
        ELSE IF "supertrack" \in d.columns
        THEN IF \E g \in withSuper : g[1] \notin DOMAIN d.super_tracks
             THEN Fail(d, "KeyError", "_get_composite_tracks")
             ELSE [d EXCEPT !.composite_tracks =
                     [h \in {get_hash(<<g[1], <<g[2]>>>>) : g \in withSuper} |->
                        LET g == CHOOSE g \in withSuper : get_hash(<<g[1], <<g[2]>>>>) = h
                        IN  [name |-> d.super_tracks[g[1]].name \o <<g[2]>>,
                             tracktype |-> g[2],
                             dimensions |-> Dimensions(sub),
                             sortOrder |-> sub,
                             subgroups |-> d.subgroup_definitions,
                             parent |-> g[1]]]]
        ELSE IF sub # <<>>
        THEN [d EXCEPT !.composite_tracks =
                [h \in {get_hash(<<<<e>>>>) : e \in byExt} |->
                    LET e == CHOOSE e \in byExt : get_hash(<<<<e>>>>) = h
                    IN  [name |-> <<e>>,
                         tracktype |-> e,
                         dimensions |-> Dimensions(sub),
                         sortOrder |-> sub,
                         subgroups |-> d.subgroup_definitions,
                         parent |-> NoTag]]]
        ELSE d

\* _add_composite_track_indicators
AddCompositeTrackIndicators(d) ==
    LET cols == (IF d.supertrack_columns # <<>> THEN <<"supertrack">> ELSE <<>>) \o <<"ext">>
        tagged == [i \in Indices(d.details) |->
                     [d.details[i] EXCEPT !.composite = get_hash(TagItems(d.details[i], cols))]]
    IN  IF d.status # "ok" \/ DOMAIN d.composite_tracks = {} THEN d
        ELSE IF \E i \in Indices(tagged) : tagged[i].composite \notin DOMAIN d.composite_tracks
        THEN Fail([d EXCEPT !.details = tagged, !.columns = @ \cup {"composite"}],
                  "AssertionError", "_add_composite_track_indicators")
        ELSE [d EXCEPT !.details = tagged, !.columns = @ \cup {"composite"}]

\* _get_overlay_tracks
GetOverlayTracks(d) ==
    LET rows == d.details
        ov == d.overlay_columns
        live == {i \in Indices(rows) : ~IsNull(rows[i], ov)}
        \* groupby(["supertrack", *overlay columns]): keys (supertrack, values...)
        withSuper == {<<rows[i].supertrack, RowValues(rows[i], ov)>> : i \in live}
        plain == {RowValues(rows[i], ov) : i \in live}
    IN  IF d.status # "ok" \/ ov = <<>> THEN d
        ELSE IF ~HasColumns(d, ov)
        THEN Fail(d, "AssertionError", "_get_overlay_tracks")
        ELSE IF "supertrack" \in d.columns
        THEN IF withSuper # {} /\ Len(ov) > 1
             \* for (supertrack, overlay), df in ...: a key of three or more values
             THEN Fail(d, "ValueError", "_get_overlay_tracks")
             ELSE IF \E g \in withSuper : g[1] \notin DOMAIN d.super_tracks
             THEN Fail(d, "KeyError", "_get_overlay_tracks")
             ELSE [d EXCEPT !.overlay_tracks =
                     [h \in {get_hash(<<g[1]>> \o Items(g[2])) : g \in withSuper} |->
                        LET g == CHOOSE g \in withSuper : get_hash(<<g[1]>> \o Items(g[2])) = h
                        IN  [name |-> d.super_tracks[g[1]].name \o g[2] \o <<"overlay">>,
                             parent |-> g[1]]]]
        ELSE [d EXCEPT !.overlay_tracks =
                [h \in {get_hash(Items(k)) : k \in plain} |->
                    [name |-> CHOOSE k \in plain : get_hash(Items(k)) = h,
                     parent |-> NoTag]]]

\* _add_overlay_track_indicators
AddOverlayTrackIndicators(d) ==
    LET cols == (IF d.supertrack_columns # <<>> THEN <<"supertrack">> ELSE <<>>)
                   \o d.overlay_columns
        tagged == [i \in Indices(d.details) |->
                     [d.details[i] EXCEPT !.overlay = get_hash(TagItems(d.details[i], cols))]]
    IN  IF d.status # "ok" \/ d.overlay_columns = <<>> THEN d
        ELSE IF \E i \in Indices(tagged) : tagged[i].overlay \notin DOMAIN d.overlay_tracks
        THEN Fail([d EXCEPT !.details = tagged, !.columns = @ \cup {"overlay"}],
                  "AssertionError", "_add_overlay_track_indicators")
        ELSE [d EXCEPT !.details = tagged, !.columns = @ \cup {"overlay"}]

\* position of the first row holding the same value of column c as row i
FirstWith(rows, c, i) ==
    CHOOSE j \in 1..i : /\ Val(rows[j], c) = Val(rows[i], c)
                        /\ \A k \in 1..(j - 1) : Val(rows[k], c) # Val(rows[i], c)

\* _add_track_colors(color_by): the i-th distinct value of the column, in
\* order of first appearance, gets colour i of the "tab20" palette
AddTrackColors(d) ==
    LET rows == d.details
        c == d.color_by
        firsts == {FirstWith(rows, c, i) : i \in Indices(rows)}
        ordinal(i) == Cardinality({j \in firsts : j <= FirstWith(rows, c, i)})
    IN  IF d.status # "ok" \/ ~Truthy(c) THEN d
        ELSE IF ~HasColumns(d, <<c>>)
        THEN Fail(d, "AssertionError", "_add_track_colors")
        ELSE [d EXCEPT
                !.details = [i \in Indices(rows) |->
                               [rows[i] EXCEPT !.color = <<"tab20", ordinal(i)>>]],
                !.columns = @ \cup {"color"}]

\* TrackDesign.__init__
TrackDesign(files, a) ==
    AddTrackColors(
      AddOverlayTrackIndicators(
        GetOverlayTracks(
          AddCompositeTrackIndicators(
            GetCompositeTracks(
              AddSupertrackIndicators(
                GetSuperTracks(
                  AddSubgroupings(NewDesign(files, a)))))))))

\* TrackDesign.from_design(design, **kwargs)
from_design(rows, a) ==
    LET tf == TrackFiles(rows)
    IN  IF tf.status # "ok"
        THEN Fail(NewDesign(tf.files, a), tf.status, "TrackFiles")
        ELSE TrackDesign(tf.files, a)

----------------------------------------------------------------------------
(* HubGenerator (api.py) *)

IsSignalTrackAny(ext) == TRUE

\* track.tracktype not in ["bigWig", ] is the test that keeps a row out
IsSignalTrack(ext) == ext \in {"bigWig"}

IsRootTrackNever(d, has_composite, has_overlay) == FALSE

\* not hasattr(row, "supertrack") and not has_composite and not has_overlay
IsRootTrack(d, has_composite, has_overlay) ==
    "supertrack" \notin d.columns /\ ~has_composite /\ ~has_overlay

\* one iteration of the loop of _add_tracks_to_hub, on row i
AddRowToHub(d, h, i) ==
    LET row == d.details[i]
        has_composite == "composite" \in d.columns
        has_overlay == "overlay" \in d.columns
    IN  IF h.status # "ok" THEN h
        ELSE IF has_composite /\ row.composite \notin DOMAIN d.composite_tracks
        THEN [h EXCEPT !.status = "KeyError"]
        ELSE IF has_overlay /\ row.overlay \notin DOMAIN d.overlay_tracks
        THEN [h EXCEPT !.status = "KeyError"]
        ELSE [h EXCEPT
                !.composite_subtracks =
                    IF has_composite
                    THEN [@ EXCEPT ![row.composite] = Append(@, i)] ELSE @,
                !.overlay_subtracks =
                    IF has_overlay /\ IsSignalTrack(row.ext)
                    THEN [@ EXCEPT ![row.overlay] = Append(@, i)] ELSE @,
                !.warnings =
                    IF has_overlay /\ ~IsSignalTrack(row.ext)
                    THEN Append(@, [row |-> i, overlay |-> row.overlay]) ELSE @,
                !.trackdb =
                    IF IsRootTrack(d, has_composite, has_overlay)
                    THEN Append(@, i) ELSE @]

RECURSIVE AddRowsToHub(_, _, _)
AddRowsToHub(d, h, i) ==
    IF i > Len(d.details) THEN h
    ELSE AddRowsToHub(d, AddRowToHub(d, h, i), i + 1)

TopLevelTracksAll(d) ==
    DOMAIN d.super_tracks \cup DOMAIN d.composite_tracks \cup DOMAIN d.overlay_tracks

\* the containers _add_tracks_to_hub adds to the trackdb: the SuperTracks when
\* there are any, else the Composites and Overlays
TopLevelTracks(d) ==
    IF DOMAIN d.super_tracks # {} THEN DOMAIN d.super_tracks
    ELSE DOMAIN d.composite_tracks \cup DOMAIN d.overlay_tracks

\* HubGenerator(track_design=d): _add_tracks_to_hub.  Rows are named by their
\* position in d.details, containers by their key.
HubGenerator(d) ==
    LET h0 == [status |-> "ok",
               trackdb |-> <<>>,
               containers |-> {},
               composite_subtracks |-> [k \in DOMAIN d.composite_tracks |-> <<>>],
               overlay_subtracks |-> [k \in DOMAIN d.overlay_tracks |-> <<>>],
               warnings |-> <<>>]
        h == AddRowsToHub(d, h0, 1)
    IN  IF h.status # "ok" THEN h
        ELSE [h EXCEPT !.containers = TopLevelTracks(d)]

----------------------------------------------------------------------------
(* Specification of the compiler and the renderer on a given table *)

MaxRows == 2

RowNames == <<"s1", "s2", "s3">>

\* the cells a row may hold: a column is absent (NaN) or has a value
\* one column more than there are dimension slots
SevenColumns == <<"cell", "assay", "mark", "replicate", "sex", "stage", "tissue">>

SevenCells ==
    [k \in Range(SevenColumns) |->
        CASE k = "cell" -> "K562"
          [] k = "assay" -> "ATAC"
          [] k = "mark" -> "H3K27ac"
          [] k = "replicate" -> "rep1"
          [] k = "sex" -> "female"
          [] k = "stage" -> "adult"
          [] k = "tissue" -> "liver"]

RowCells ==
    { EmptyMeta,
      [k \in {"cell"} |-> "K562"],
      [k \in {"cell"} |-> "HepG2"],
      [k \in {"assay"} |-> "ATAC"],
      [k \in {"assay", "cell"} |-> IF k = "cell" THEN "K562" ELSE "ATAC"],
      [k \in {"assay", "cell"} |-> IF k = "cell" THEN "HepG2" ELSE "ChIP"],
      SevenCells }

TableRow(i, ext, cells) ==
    [fn |-> str(MkPath(FALSE, <<>>, RowNames[i], ext)),
     name |-> RowNames[i], ext |-> ext, vals |-> cells]

Tables ==
    UNION { { [i \in 1..n |-> TableRow(i, e[i], c[i])] :
                e \in [1..n -> {"bigWig", "bigBed"}], c \in [1..n -> RowCells] }
            : n \in 1..MaxRows }

AxesChoices ==
    { [subgroup_by |-> sub, supergroup_by |-> sup, overlay_by |-> ov, color_by |-> col] :
        sub \in {<<>>, <<"cell">>, SevenColumns},
        sup \in {<<>>, <<"assay">>, <<"cell">>},
        ov \in {<<>>, <<"cell">>, <<"assay", "cell">>},
        col \in {NoneStr, "cell"} }

InitCompile ==
    /\ heap = <<>>
    /\ builders = [b \in BuilderIds |-> HubBuilder]
    /\ lastOp = [op |-> "init", a |-> "A", b |-> "A"]
    /\ nops = 0
    /\ restored = HubBuilder
    /\ assoc = <<>>
    /\ run = [Idle EXCEPT !.pc = "compile"]
    /\ events = <<>>
    /\ sidecar = NoJson
    /\ table \in Tables
    /\ axes \in AxesChoices
    /\ design = NoDesign
    /\ hub = NoHub
    /\ first = NoDesign

\* a step of the build numbered run.n, on track i (0: on no single track)
Event(step, i) == [step |-> step, n |-> run.n, i |-> i]

\* design = TrackDesign.from_design(df, **axes)
FromDesign ==
    /\ run.pc = "compile"
    /\ design' = from_design(table, axes)
    /\ run' = [run EXCEPT !.pc = IF design'.status = "ok" THEN "render" ELSE "failed"]
    /\ events' = Append(events, Event("compile", 0))
    /\ UNCHANGED <<heap, builders, lastOp, nops, restored, assoc,
                   sidecar, table, axes, hub, first>>

\* HubGenerator(track_design=design, ...)
Render ==
    /\ run.pc = "render"
    /\ hub' = HubGenerator(design)
    /\ run' = [run EXCEPT !.pc = IF hub'.status = "ok" THEN "done" ELSE "failed"]
    /\ events' = Append(events, Event("render", 0))
    /\ UNCHANGED <<heap, builders, lastOp, nops, restored, assoc,
                   sidecar, table, axes, design, first>>

NextCompile ==
    \/ FromDesign
    \/ Render

SpecCompile == InitCompile /\ [][NextCompile]_vars

----------------------------------------------------------------------------
(* HubBuilder.build (builder.py) *)

\* the fixed arguments of the registered extractors:
\* from_parent_dirs(depth=1, names=["cell"]) and with_static_metadata(assay="ATAC")
ParentDirKey == "cell"
StaticMetadata == [k \in {"assay"} |-> "ATAC"]

\* build(..., outdir="hub")
OutDir == <<"hub">>

\* str.lower() on the formats and suffixes of the model
LowerAsIs(x) == x

Lower(x) ==
    CASE x = "bigWig" -> "bigwig"
      [] x = "bigBed" -> "bigbed"
      [] x = "bigGenePred" -> "biggenepred"
      [] x = "BigBed" -> "bigbed"
      [] x = "BW" -> "bw"
      [] x = "GTF" -> "gtf"
      [] x = "BAM" -> "bam"
      [] OTHER -> x

\* extension_mapping.get(ext.lower(), ext)
MapExtension(ext) ==
    LET e == Lower(ext)
    IN  CASE e = "bw" -> "bigWig"
          [] e = "bb" -> "bigBed"
          [] e = "bigbed" -> "bigBed"
          [] e = "bigwig" -> "bigWig"
          [] e = "bed" -> "bigBed"
          [] e = "gtf" -> "bigGenePred"
          [] e = "gff" -> "bigGenePred"
          [] e = "biggenepred" -> "bigGenePred"
          [] e = "narrowpeak" -> "narrowPeak"
          [] e = "broadpeak" -> "broadPeak"
          [] OTHER -> ext

NeedsConversionAlways(t) == TRUE

\* the suffix tests of _convert_tracks
NeedsConversion(t) == Lower(t.path.suffix) \in {"bed", "gtf", "gff"}

ConvertedType(t) == IF Lower(t.path.suffix) = "bed" THEN "bigBed" ELSE "bigGenePred"

\* dest = outdir / "converted" / track.path.with_suffix(".bb").name
Dest(t) == MkPath(FALSE, OutDir \o <<"converted">>, t.path.stem, "bb")

\* track._original_path = track.path, set before the converter is called
MarkOriginal(t) == [t EXCEPT !.original_path = <<t.path>>]

\* track.path = new_path; track.track_type = ...
Converted(t) == [MarkOriginal(t) EXCEPT !.path = Dest(t), !.track_type = ConvertedType(t)]

\* getattr(track, "_original_path", track.path)
PathToExtract(t) == IF t.original_path # NoPath THEN t.original_path[1] ELSE t.path

\* the extractor from_parent_dirs returns: the parent directory's name, or
\* nothing when the parent is the root or "."
FromParentDirs(path) ==
    IF path.dir = <<>> THEN EmptyMeta
    ELSE [k \in {ParentDirKey} |-> path.dir[Len(path.dir)]]

\* with_static_metadata(cell="GM12878")
StaticCell == [k \in {ParentDirKey} |-> "GM12878"]

RunExtractor(fn, path) ==
    CASE fn = "from_parent_dirs" -> FromParentDirs(path)
      [] fn = "with_static_cell" -> StaticCell
      [] OTHER -> StaticMetadata

UpdateKeepExisting(md, extracted) ==
    [k \in DOMAIN md \cup DOMAIN extracted |->
        IF k \in DOMAIN md THEN md[k] ELSE extracted[k]]

\* dict.update
Update(md, extracted) ==
    [k \in DOMAIN md \cup DOMAIN extracted |->
        IF k \in DOMAIN extracted THEN extracted[k] ELSE md[k]]

RECURSIVE ExtractAll(_, _, _)
\* for extractor in self.metadata_extractors: track.metadata.update(...)
ExtractAll(fns, path, md) ==
    IF fns = <<>> THEN md
    ELSE ExtractAll(Tail(fns), path, Update(md, RunExtractor(Head(fns), path)))

\* one row of _prepare_design_df
DesignRow(t) ==
    [fn |-> str(t.path),
     name |-> IF Truthy(t.name) THEN t.name ELSE t.path.stem,
     ext |-> MapExtension(IF Truthy(t.track_type) THEN t.track_type ELSE t.path.suffix),
     vals |-> t.metadata]

\* the keyword arguments build passes to TrackDesign.from_design
DesignArgs(b) ==
    [subgroup_by |-> b.group_by_cols,
     supergroup_by |-> b.supergroup_by_cols,
     overlay_by |-> b.overlay_by_cols,
     color_by |-> b.color_by_col]

StepAfterSidecarLast(step) ==
    CASE step = "start" -> "convert"
      [] step = "convert" -> "extract"
      [] step = "extract" -> "table"
      [] step = "table" -> "sidecar"
      [] step = "sidecar" -> "compile"

\* the order of the statements of build
StepAfter(step) ==
    CASE step = "start" -> "convert"
      [] step = "convert" -> "sidecar"
      [] step = "sidecar" -> "extract"
      [] step = "extract" -> "table"
      [] step = "table" -> "compile"

Tracks(b) == builders[b].tracks

\* b.build(name, genome, outdir): a scenario builds at most twice
BuildStart(b) ==
    /\ \/ run.pc = "idle" /\ run.n = 0 /\ b = "A"
       \/ run.pc \in {"done", "failed"} /\ run.n = 1 /\ b = "A" /\ lastOp.op # "reconstruct"
       \/ run.pc \in {"done", "failed"} /\ run.n = 1 /\ b = "B" /\ lastOp.op = "reconstruct"
    /\ run' = [run EXCEPT !.b = b, !.n = @ + 1,
                          !.i = IF builders[b].convert_files THEN 0 ELSE 1,
                          !.pc = IF builders[b].convert_files
                                 THEN StepAfter("start") ELSE StepAfter("convert")]
    /\ first' = IF run.n = 1
                THEN [status |-> run.pc, table |-> table, design |-> design]
                ELSE first
    /\ table' = <<>>
    /\ axes' = NoAxes
    /\ design' = NoDesign
    /\ hub' = NoHub
    /\ Did("build", b, b)
    /\ UNCHANGED <<heap, builders, nops, restored, assoc, events, sidecar>>

RaiseSwallowed(r) == [r EXCEPT !.pc = StepAfter("convert"), !.i = 1]

\* an exception raised in _convert_tracks leaves build: nothing catches it
Raise(r) == [r EXCEPT !.pc = "failed"]

\* _convert_tracks: the chrom_sizes test.  An event "convert_error" records a
\* raise, with i = 0 for the ValueError of this test
ConvertCheck ==
    /\ run.pc = "convert" /\ run.i = 0
    /\ LET cs == builders[run.b].chrom_sizes
       IN  IF cs = NoPath \/ cs[1] \notin run.fs
           THEN /\ run' = Raise(run)
                /\ events' = Append(events, Event("convert_error", 0))
           ELSE /\ IF Tracks(run.b) = <<>>
                   THEN run' = [run EXCEPT !.pc = StepAfter("convert"), !.i = 1]
                   ELSE run' = [run EXCEPT !.i = 1]
                /\ UNCHANGED events
    /\ UNCHANGED <<heap, builders, lastOp, nops, restored, assoc,
                   sidecar, table, axes, design, hub, first>>

\* _convert_tracks: one iteration of the loop; the converter returns or raises
ConvertTrack(ok) ==
    /\ run.pc = "convert" /\ run.i >= 1
    /\ LET id == Tracks(run.b)[run.i]
           last == run.i = Len(Tracks(run.b))
           advance == [run EXCEPT !.i = IF last THEN 1 ELSE @ + 1,
                                  !.pc = IF last THEN StepAfter("convert") ELSE @]
       IN  IF ~NeedsConversion(heap[id])
           THEN /\ ok
                /\ run' = advance
                /\ UNCHANGED <<heap, events>>
           ELSE IF ok
           THEN /\ heap' = [heap EXCEPT ![id] = Converted(@)]
                /\ events' = Append(events, Event("convert", run.i))
                /\ run' = advance
           ELSE /\ heap' = [heap EXCEPT ![id] = MarkOriginal(@)]
                /\ run' = Raise(run)
                /\ events' = Append(events, Event("convert_error", run.i))
    /\ UNCHANGED <<builders, lastOp, nops, restored, assoc,
                   sidecar, table, axes, design, hub, first>>

\* self.to_json(outdir / "tracknado_config.json")
WriteSidecar ==
    /\ run.pc = "sidecar"
    /\ sidecar' = to_json(builders[run.b], heap)
    /\ events' = Append(events, Event("sidecar", 0))
    /\ run' = [run EXCEPT !.pc = StepAfter("sidecar"), !.i = 1]
    /\ UNCHANGED <<heap, builders, lastOp, nops, restored, assoc,
                   table, axes, design, hub, first>>

\* _extract_metadata: it returns when no extractor is registered or the loop
\* is over, and otherwise runs one iteration of the loop over the tracks
ExtractMetadata ==
    /\ run.pc = "extract"
    /\ IF builders[run.b].metadata_extractors = <<>> \/ run.i > Len(Tracks(run.b))
       THEN /\ run' = [run EXCEPT !.pc = StepAfter("extract"), !.i = 1]
            /\ UNCHANGED <<heap, events>>
       ELSE /\ LET id == Tracks(run.b)[run.i]
               IN  heap' = [heap EXCEPT ![id].metadata =
                              ExtractAll(builders[run.b].metadata_extractors,
                                         PathToExtract(heap[id]), @)]
            /\ events' = Append(events, Event("extract", run.i))
            /\ run' = [run EXCEPT !.i = @ + 1]
    /\ UNCHANGED <<builders, lastOp, nops, restored, assoc,
                   sidecar, table, axes, design, hub, first>>

\* the rest of _prepare_design_df, and the arguments of from_design
PrepareTable ==
    /\ run.pc = "table"
    /\ table' = [i \in 1..Len(Tracks(run.b)) |-> DesignRow(heap[Tracks(run.b)[i]])]
    /\ axes' = DesignArgs(builders[run.b])
    /\ events' = Append(events, Event("table", 0))
    /\ run' = [run EXCEPT !.pc = StepAfter("table"), !.i = 1]
    /\ UNCHANGED <<heap, builders, lastOp, nops, restored, assoc,
                   sidecar, design, hub, first>>

\* b = HubBuilder.from_json(outdir / "tracknado_config.json"), then
\* b.with_metadata_extractor(fn) for the extractors of the original builder
Reconstruct ==
    /\ run.pc \in {"done", "failed"} /\ run.n = 1
    /\ lastOp.op # "reconstruct"
    /\ sidecar # NoJson
    /\ LET r == from_json(sidecar)
       IN  /\ heap' = heap \o r.tracks
           /\ builders' = [builders EXCEPT !["B"] =
                  [r EXCEPT !.tracks = [i \in 1..Len(r.tracks) |-> Len(heap) + i],
                            !.metadata_extractors = builders["A"].metadata_extractors]]
    /\ Did("reconstruct", "B", "A")
    /\ UNCHANGED <<nops, restored, assoc, pipeline>>

----------------------------------------------------------------------------
(* Specification of build: a configured builder is built, then built again, *)
(* or a builder reconstructed from the sidecar is built                     *)

\* the track lists add_tracks can have produced
TrackLists ==
    UNION { [1..n -> {Track(p, md) : p \in InputPaths, md \in CommonMetadata}]
            : n \in 1..MaxTracks }

\* the axis declarations of the builder
AxisConfigs ==
    { [group |-> <<>>, super |-> <<>>, overlay |-> <<>>],
      [group |-> <<"cell">>, super |-> <<>>, overlay |-> <<>>],
      [group |-> <<>>, super |-> <<"cell">>, overlay |-> <<>>],
      [group |-> <<>>, super |-> <<>>, overlay |-> <<"cell">>] }

ExtractorLists ==
    { <<>>, <<"from_parent_dirs">>, <<"with_static_metadata", "from_parent_dirs">> }

\* chrom_sizes unset; set and the file exists; set and the file is missing
ChromSizesCases ==
    { [chrom_sizes |-> NoPath, fs |-> {}] }
      \cup { [chrom_sizes |-> <<p>>, fs |-> {p}] : p \in ChromSizesPaths }
      \cup { [chrom_sizes |-> <<p>>, fs |-> {}] : p \in ChromSizesPaths }

InitBuild ==
    \E ts \in TrackLists, ax \in AxisConfigs, ex \in ExtractorLists,
       cv \in BOOLEAN, cs \in ChromSizesCases :
        /\ heap = ts
        /\ builders = [b \in BuilderIds |->
              IF b = "A"
              THEN [HubBuilder EXCEPT
                      !.tracks = [i \in 1..Len(ts) |-> i],
                      !.group_by_cols = ax.group,
                      !.supergroup_by_cols = ax.super,
                      !.overlay_by_cols = ax.overlay,
                      !.metadata_extractors = ex,
                      !.convert_files = cv,
                      !.chrom_sizes = cs.chrom_sizes]
              ELSE HubBuilder]
        /\ run = [Idle EXCEPT !.fs = cs.fs]
        /\ lastOp = [op |-> "init", a |-> "A", b |-> "A"]
        /\ nops = 0
        /\ restored = HubBuilder
        /\ assoc = <<>>
        /\ events = <<>>
        /\ sidecar = NoJson
        /\ table = <<>>
        /\ axes = NoAxes
        /\ design = NoDesign
        /\ hub = NoHub
        /\ first = NoDesign

NextBuild ==
    \/ \E b \in {"A", "B"} : BuildStart(b)
    \/ ConvertCheck
    \/ \E ok \in BOOLEAN : ConvertTrack(ok)
    \/ WriteSidecar
    \/ ExtractMetadata
    \/ PrepareTable
    \/ FromDesign
    \/ Render
    \/ Reconstruct

SpecBuild == InitBuild /\ [][NextBuild]_vars

----------------------------------------------------------------------------
(* Specification of the materialization of the metadata table by build *)

\* suffix and track_type of a track: aliases in several cases, formats
\* without alias, no suffix, an empty and an unset track_type
Formats ==
    { [suffix |-> "bigWig", track_type |-> NoneStr],
      [suffix |-> "BW", track_type |-> NoneStr],
      [suffix |-> "bed", track_type |-> NoneStr],
      [suffix |-> "GTF", track_type |-> ""],
      [suffix |-> "BAM", track_type |-> NoneStr],
      [suffix |-> "", track_type |-> NoneStr],
      [suffix |-> "txt", track_type |-> "gff"],
      [suffix |-> "txt", track_type |-> "narrowpeak"],
      [suffix |-> "bed", track_type |-> "cram"],
      [suffix |-> "bigWig", track_type |-> "BigBed"] }

\* where a track lies and the metadata it was added with
Origins ==
    { [abs |-> TRUE, dir |-> <<"data", "K562">>, metadata |-> EmptyMeta],
      [abs |-> TRUE, dir |-> <<"data", "HepG2">>, metadata |-> [k \in {"cell"} |-> "K562"]],
      [abs |-> FALSE, dir |-> <<>>, metadata |-> [k \in {"cell"} |-> "K562"]],
      [abs |-> TRUE, dir |-> <<"data", "K562">>,
       metadata |-> [k \in {"assay", "mark"} |-> IF k = "assay" THEN "ChIP" ELSE "H3K27ac"]] }

TableTracks ==
    { [Track(MkPath(o.abs, o.dir, "a", f.suffix), o.metadata) EXCEPT !.track_type = f.track_type]
        : f \in Formats, o \in Origins }

TableTrackLists == UNION { [1..n -> TableTracks] : n \in 1..MaxTracks }

TableExtractorLists ==
    { <<>>,
      <<"from_parent_dirs">>,
      <<"with_static_metadata", "from_parent_dirs">>,
      <<"from_parent_dirs", "with_static_cell">>,
      <<"with_static_cell", "from_parent_dirs">> }

InitTable ==
    \E ts \in TableTrackLists, ex \in TableExtractorLists :
        /\ heap = ts
        /\ builders = [b \in BuilderIds |->
              IF b = "A"
              THEN [HubBuilder EXCEPT !.tracks = [i \in 1..Len(ts) |-> i],
                                      !.metadata_extractors = ex]
              ELSE HubBuilder]
        /\ lastOp = [op |-> "init", a |-> "A", b |-> "A"]
        /\ nops = 0
        /\ restored = HubBuilder
        /\ assoc = <<>>
        /\ run = Idle
        /\ events = <<>>
        /\ sidecar = NoJson
        /\ table = <<>>
        /\ axes = NoAxes
        /\ design = NoDesign
        /\ hub = NoHub
        /\ first = NoDesign

\* build up to the return of TrackDesign.from_design
NextTable ==
    \/ \E b \in {"A"} : BuildStart(b)
    \/ WriteSidecar
    \/ ExtractMetadata
    \/ PrepareTable
    \/ FromDesign

SpecTable == InitTable /\ [][NextTable]_vars

----------------------------------------------------------------------------
(* Specification of the colours of a build: a builder with a colour axis   *)
(* declared by color_by(column, palette) is built                           *)

ColorTracks ==
    { Track(MkPath(FALSE, <<>>, n, "bigWig"), md) :
        n \in {"a", "b"},
        md \in {EmptyMeta, [k \in {"cell"} |-> "K562"], [k \in {"cell"} |-> "HepG2"]} }

ColorTrackLists == UNION { [1..n -> ColorTracks] : n \in 1..MaxTracks }

InitColor ==
    \E ts \in ColorTrackLists, c \in {NoneStr, "cell"}, palette \in Palettes :
        /\ heap = ts
        /\ builders = [b \in BuilderIds |->
              IF b = "A"
              THEN [HubBuilder EXCEPT !.tracks = [i \in 1..Len(ts) |-> i],
                                      !.color_by_col = c,
                                      !.color_palette = palette]
              ELSE HubBuilder]
        /\ lastOp = [op |-> "init", a |-> "A", b |-> "A"]
        /\ nops = 0
        /\ restored = HubBuilder
        /\ assoc = <<>>
        /\ run = Idle
        /\ events = <<>>
        /\ sidecar = NoJson
        /\ table = <<>>
        /\ axes = NoAxes
        /\ design = NoDesign
        /\ hub = NoHub
        /\ first = NoDesign

NextColor ==
    \/ \E b \in {"A"} : BuildStart(b)
    \/ WriteSidecar
    \/ ExtractMetadata
    \/ PrepareTable
    \/ FromDesign
    \/ Render

SpecColor == InitColor /\ [][NextColor]_vars

----------------------------------------------------------------------------
(* Specification of a build after a merge: builders A and B hold tracks of *)
(* their own; A is built, with or without merging B first                  *)

\* the tracks are shared out: A holds the first k, B the others
InitMerged ==
    \E ts \in TrackLists, ex \in ExtractorLists, cv \in BOOLEAN, cs \in ChromSizesCases :
      \E k \in 0..Len(ts) :
        /\ heap = ts
        /\ builders = [b \in BuilderIds |->
              IF b = "A"
              THEN [HubBuilder EXCEPT
                      !.tracks = [i \in 1..k |-> i],
                      !.metadata_extractors = ex,
                      !.convert_files = cv,
                      !.chrom_sizes = cs.chrom_sizes]
              ELSE IF b = "B"
              THEN [HubBuilder EXCEPT !.tracks = [i \in 1..(Len(ts) - k) |-> k + i]]
              ELSE HubBuilder]
        /\ run = [Idle EXCEPT !.fs = cs.fs]
        /\ lastOp = [op |-> "init", a |-> "A", b |-> "A"]
        /\ nops = 0
        /\ restored = HubBuilder
        /\ assoc = <<>>
        /\ events = <<>>
        /\ sidecar = NoJson
        /\ table = <<>>
        /\ axes = NoAxes
        /\ design = NoDesign
        /\ hub = NoHub
        /\ first = NoDesign

NextMerged ==
    \/ run.pc = "idle" /\ nops = 0 /\ Merge("A", "B")
    \/ \E b \in {"A"} : BuildStart(b)
    \/ ConvertCheck
    \/ \E ok \in BOOLEAN : ConvertTrack(ok)
    \/ WriteSidecar
    \/ ExtractMetadata
    \/ PrepareTable
    \/ FromDesign
    \/ Render

SpecMerged == InitMerged /\ [][NextMerged]_vars

----------------------------------------------------------------------------
(* Specification of the merge command (cli.py): two compiled designs are   *)
(* loaded, added with TrackDesign.__add__ and rendered                     *)

\* TrackDesign.__add__(self, other)
Add(self, other) ==
    LET concat == [self EXCEPT
                     !.details = fix_duplicate_names(self.details \o other.details),
                     !.columns = @ \cup other.columns]
        super == IF self.supertrack_columns # <<>> \/ other.supertrack_columns # <<>>
                 THEN AddSupertrackIndicators(
                        [concat EXCEPT !.supertrack_columns =
                            MergeCols(self.supertrack_columns, other.supertrack_columns)])
                 ELSE concat
        composite == IF self.subgroup_columns # <<>> \/ other.subgroup_columns # <<>>
                     THEN AddCompositeTrackIndicators(
                            [super EXCEPT !.subgroup_columns =
                                MergeCols(self.subgroup_columns, other.subgroup_columns)])
                     ELSE super
    IN  IF self.overlay_columns # <<>> \/ other.overlay_columns # <<>>
        THEN AddOverlayTrackIndicators(
               [composite EXCEPT !.overlay_columns =
                   MergeCols(self.overlay_columns, other.overlay_columns)])
        ELSE composite

AddCells ==
    { [k \in {"assay", "cell"} |-> IF k = "cell" THEN "K562" ELSE "ATAC"],
      [k \in {"assay", "cell"} |-> IF k = "cell" THEN "HepG2" ELSE "ATAC"],
      [k \in {"assay", "cell"} |-> IF k = "cell" THEN "HepG2" ELSE "ChIP"] }

\* the tables of the designs that were saved
AddTables ==
    UNION { { [i \in 1..n |-> TableRow(i, e[i], c[i])] :
                e \in [1..n -> {"bigWig", "bigBed"}], c \in [1..n -> AddCells] }
            : n \in 1..(MaxRows - 1) }

AddAxes ==
    { [subgroup_by |-> sub, supergroup_by |-> sup, overlay_by |-> ov, color_by |-> NoneStr] :
        sub \in {<<>>, <<"cell">>},
        sup \in {<<>>, <<"assay">>},
        ov \in {<<>>, <<"cell">>} }

\* design = TrackDesign.from_pickle(hub) for the two input files
InitAdd ==
    \E t1 \in AddTables, t2 \in AddTables, a1 \in AddAxes, a2 \in AddAxes :
        /\ from_design(t1, a1).status = "ok"
        /\ from_design(t2, a2).status = "ok"
        /\ first = [status |-> "done", table |-> t1, design |-> from_design(t1, a1)]
        /\ table = t2
        /\ axes = a2
        /\ design = from_design(t2, a2)
        /\ heap = <<>>
        /\ builders = [b \in BuilderIds |-> HubBuilder]
        /\ lastOp = [op |-> "init", a |-> "A", b |-> "A"]
        /\ nops = 0
        /\ restored = HubBuilder
        /\ assoc = <<>>
        /\ run = [Idle EXCEPT !.pc = "add"]
        /\ events = <<>>
        /\ sidecar = NoJson
        /\ hub = NoHub

\* design = design + TrackDesign.from_pickle(hub)
AddDesigns ==
    /\ run.pc = "add"
    /\ design' = Add(first.design, design)
    /\ run' = [run EXCEPT !.pc = IF design'.status = "ok" THEN "render" ELSE "failed"]
    /\ events' = Append(events, Event("add", 0))
    /\ Did("add", "A", "B")
    /\ UNCHANGED <<heap, builders, nops, restored, assoc,
                   sidecar, table, axes, hub, first>>

NextAdd ==
    \/ AddDesigns
    \/ Render

SpecAdd == InitAdd /\ [][NextAdd]_vars

----------------------------------------------------------------------------
(* Claims about merge and serialization *)

\* r is strictly ascending (sorted, no duplicate) and holds exactly the
\* columns of x and y
IsSortedUnion(r, x, y) ==
    /\ \A i \in 1..(Len(r) - 1) : Rank(r[i]) < Rank(r[i + 1])
    /\ Range(r) = Range(x) \cup Range(y)

\* C1: after a.merge(b), each grouping-axis list of a is the sorted,
\* duplicate-free union of a's and b's lists for that axis before the merge.
C1_MergeAxesSortedUnion ==
    [][\A a \in BuilderIds, b \in BuilderIds :
         Did("merge", a, b) =>
           /\ IsSortedUnion(builders'[a].group_by_cols,
                            builders[a].group_by_cols, builders[b].group_by_cols)
           /\ IsSortedUnion(builders'[a].supergroup_by_cols,
                            builders[a].supergroup_by_cols, builders[b].supergroup_by_cols)
           /\ IsSortedUnion(builders'[a].overlay_by_cols,
                            builders[a].overlay_by_cols, builders[b].overlay_by_cols)]_vars

\* A merged its <<"mark">> with B's <<"assay">>: the union is reordered
C1_Witness ==
    /\ lastOp = [op |-> "merge", a |-> "A", b |-> "B"]
    /\ builders["B"].group_by_cols = <<"assay">>
    /\ builders["A"].group_by_cols = <<"assay", "mark">>

\* C2: merge keeps a's colour column and palette when a's colour column was
\* set (non-empty), and otherwise gives a the colour column of b.
C2_MergeColorFirstWins ==
    [][\A a \in BuilderIds, b \in BuilderIds :
         Did("merge", a, b) =>
           IF Truthy(builders[a].color_by_col)
           THEN /\ builders'[a].color_by_col = builders[a].color_by_col
                /\ builders'[a].color_palette = builders[a].color_palette
           ELSE builders'[a].color_by_col = builders[b].color_by_col]_vars

\* both builders had a colour axis, with different palettes; A kept its own
C2_Witness ==
    /\ lastOp = [op |-> "merge", a |-> "A", b |-> "B"]
    /\ builders["A"].color_by_col = "cell"
    /\ builders["A"].color_palette = "Set1"
    /\ builders["B"].color_by_col = "mark"
    /\ builders["B"].color_palette = "tab20"

\* C3: after a.merge(b), a's track list is a's list followed by b's list,
\* track for track, with nothing dropped even when two tracks share a path.
C3_MergeTracksConcatenated ==
    [][\A a \in BuilderIds, b \in BuilderIds :
         Did("merge", a, b) =>
           LET old == builders[a].tracks
               add == builders[b].tracks
               new == builders'[a].tracks
           IN  /\ Len(new) = Len(old) + Len(add)
               /\ \A i \in 1..Len(old) : new[i] = old[i]
               /\ \A i \in 1..Len(add) : new[Len(old) + i] = add[i]
               /\ heap' = heap]_vars

\* A and B each held a track of the same path; A now holds both
C3_Witness ==
    /\ lastOp = [op |-> "merge", a |-> "A", b |-> "B"]
    /\ Len(builders["A"].tracks) = 2
    /\ Len(builders["B"].tracks) = 1
    /\ heap[builders["A"].tracks[1]].path = heap[builders["A"].tracks[2]].path

AxisDeclarations(b) ==
    <<b.group_by_cols, b.supergroup_by_cols, b.overlay_by_cols, b.color_by_col>>

\* C4: merging B then C into A gives A the same group, supergroup and overlay
\* lists and the same colour column as merging into A the result of merging
\* C into B.
C4_MergeAssociative ==
    assoc # <<>> => AxisDeclarations(assoc[1]) = AxisDeclarations(assoc[2])

\* three distinct builders each contributed a declaration
C4_Witness ==
    /\ assoc # <<>>
    /\ lastOp = [op |-> "assoc", a |-> "A", b |-> "B"]
    /\ builders["A"].group_by_cols = <<"mark">>
    /\ builders["B"].group_by_cols = <<"cell">>
    /\ builders["C"].group_by_cols = <<"assay">>
    /\ assoc[1].group_by_cols = <<"assay", "cell", "mark">>

SameTrack(t, u) ==
    /\ t.path = u.path
    /\ t.name = u.name
    /\ t.metadata = u.metadata
    /\ t.color = u.color
    /\ t.track_type = u.track_type

\* C5: from_json(to_json(b)) has b's tracks in order (same path, name,
\* metadata, color, track_type), b's axis lists, colour column, palette and
\* conversion settings, and no extractor.
C5_JsonRoundTrip ==
    lastOp.op = "from_json" =>
       LET b == builders[lastOp.a] IN
       /\ Len(restored.tracks) = Len(b.tracks)
       /\ \A i \in 1..Len(b.tracks) : SameTrack(restored.tracks[i], heap[b.tracks[i]])
       /\ restored.group_by_cols = b.group_by_cols
       /\ restored.supergroup_by_cols = b.supergroup_by_cols
       /\ restored.overlay_by_cols = b.overlay_by_cols
       /\ restored.color_by_col = b.color_by_col
       /\ restored.color_palette = b.color_palette
       /\ restored.convert_files = b.convert_files
       /\ restored.chrom_sizes = b.chrom_sizes
       /\ restored.metadata_extractors = <<>>

\* a builder with a typed, named track and an extractor went through JSON
C5_Witness ==
    /\ lastOp.op = "from_json"
    /\ Len(restored.tracks) = 1
    /\ restored.tracks[1].track_type = "bigWig"
    /\ restored.tracks[1].name = "s1"
    /\ builders[lastOp.a].metadata_extractors # <<>>

----------------------------------------------------------------------------
(* Claims about build *)

\* what a build compiled: the containers with their names and parents, and the
\* group tags of each row
Hierarchy(d) ==
    [super_tracks |-> d.super_tracks,
     composite_tracks |-> d.composite_tracks,
     overlay_tracks |-> d.overlay_tracks,
     tags |-> [i \in Indices(d.details) |->
                 [name |-> d.details[i].name,
                  supertrack |-> d.details[i].supertrack,
                  composite |-> d.details[i].composite,
                  overlay |-> d.details[i].overlay]]]

RowMetadata(rows) == [i \in Indices(rows) |-> rows[i].vals]

\* C6: when the first build succeeded, the builder deserialized from the
\* sidecar it wrote, with the same extractors attached again, builds too and
\* its build has the same per-row metadata, the same SuperTracks, Composites
\* and Overlays and the same per-row group tags as the first build.
C6_SidecarRebuildsSameHierarchy ==
    (run.n = 2 /\ run.b = "B" /\ first.status = "done" /\ run.pc \in {"done", "failed"})
        => /\ run.pc = "done"
           /\ RowMetadata(table) = RowMetadata(first.table)
           /\ Hierarchy(design) = Hierarchy(first.design)

\* positions in the log of the events of one step of build number n
Pos(step, n) == {k \in 1..Len(events) : events[k].step = step /\ events[k].n = n}

\* every event of step x of build n comes before every event of step y of it,
\* and step y does not happen without step x
Precedes(x, y, n) ==
    \A l \in Pos(y, n) : Pos(x, n) # {} /\ \A k \in Pos(x, n) : k < l

BuilderOf(n) == IF n = run.n THEN run.b ELSE "A"

\* C7: in every build, conversions come before the sidecar is written and no
\* track is left to convert once it is written (conversion enabled); the
\* sidecar is written before any extractor runs; every track has been through
\* extraction before the table is made; the table is made before it is
\* compiled, and compiled before the renderer gets the hierarchy.
C7_BuildStepsInOrder ==
    \A n \in 1..run.n :
        LET b == builders[BuilderOf(n)]
        IN  /\ \A k \in Pos("convert", n), l \in Pos("sidecar", n) : k < l
            /\ (Pos("sidecar", n) # {} /\ b.convert_files)
                  => \A i \in Indices(b.tracks) : ~NeedsConversion(heap[b.tracks[i]])
            /\ Precedes("sidecar", "extract", n)
            /\ Precedes("sidecar", "table", n)
            /\ \A k \in Pos("extract", n), l \in Pos("table", n) : k < l
            /\ (Pos("table", n) # {} /\ b.metadata_extractors # <<>>)
                  => \A i \in Indices(b.tracks) :
                        \E k \in Pos("extract", n) : events[k].i = i
            /\ Precedes("table", "compile", n)
            /\ Precedes("compile", "render", n)

C7_Witness ==
    /\ run.pc = "done"
    /\ Pos("convert", run.n) # {}
    /\ Cardinality(Pos("extract", run.n)) >= 2
    /\ Pos("render", run.n) # {}

\* C8: when a build succeeded and the same builder is built again with nothing
\* registered or declared in between, the second build succeeds too and
\* compiles the same containers, the same names and the same per-row tags.
C8_BuildRepeatable ==
    (run.n = 2 /\ run.b = "A" /\ first.status = "done" /\ run.pc \in {"done", "failed"})
        => /\ run.pc = "done"
           /\ Hierarchy(design) = Hierarchy(first.design)

C8_Witness ==
    /\ run.n = 2 /\ run.b = "A" /\ first.status = "done" /\ run.pc = "done"
    /\ Pos("convert", 1) # {}
    /\ builders["A"].metadata_extractors # <<>>
    /\ DOMAIN design.super_tracks # {}
    /\ \E i \in Indices(heap) : heap[i].original_path # NoPath

----------------------------------------------------------------------------
(* Claims about overlays *)

\* C9: when the declared overlay columns are columns of the table and the
\* compile got as far as the overlays, the compile succeeds, a row with a null
\* value in a declared overlay column has no overlay tag, and a row with all
\* of them non-null has an overlay tag that is the key of a created Overlay.
C9_NullOverlayRowsOptOut ==
    (/\ run.pc \in {"render", "done", "failed"}
     /\ design.overlay_columns # <<>>
     /\ Range(design.overlay_columns) \subseteq TableColumns(table)
     /\ design.status # "ok" =>
            design.failed_in \in {"_get_overlay_tracks", "_add_overlay_track_indicators"})
        => /\ design.status = "ok"
           /\ \A i \in Indices(design.details) :
                 IF IsNull(design.details[i], design.overlay_columns)
                 THEN design.details[i].overlay = NoTag
                 ELSE design.details[i].overlay \in DOMAIN design.overlay_tracks

WarningsFor(i) == Cardinality({k \in 1..Len(hub.warnings) : hub.warnings[k].row = i})

\* C10: once a design with overlay tags is rendered, the render has not
\* failed, a tagged row that is not bigWig is in no Overlay's subtrack list and
\* has exactly one warning, and a tagged bigWig row is in the subtrack list of
\* its Overlay (and has no warning).
C10_NonSignalOverlayRowWarned ==
    (run.pc \in {"done", "failed"} /\ design.status = "ok" /\ "overlay" \in design.columns)
        => /\ hub.status = "ok"
           /\ \A i \in Indices(design.details) :
                 IF design.details[i].ext = "bigWig"
                 THEN /\ i \in Range(hub.overlay_subtracks[design.details[i].overlay])
                      /\ WarningsFor(i) = 0
                 ELSE /\ \A k \in DOMAIN hub.overlay_subtracks :
                            i \notin Range(hub.overlay_subtracks[k])
                      /\ WarningsFor(i) = 1

C10_Witness ==
    /\ run.pc = "done"
    /\ "overlay" \in design.columns
    /\ \E i, j \in Indices(design.details) :
          /\ design.details[i].ext = "bigBed"
          /\ design.details[j].ext = "bigWig"
          /\ design.details[i].overlay = design.details[j].overlay
    /\ Len(hub.warnings) = 1

----------------------------------------------------------------------------
(* Claims about the compiler *)

\* the values (nulls apart) the table holds in column c
DistinctValues(rows, c) == {Val(rows[i], c) : i \in Indices(rows)} \ {NaN}

\* the compile stopped in one of the steps that derive SuperTracks and look
\* them up
FailedOnSuperTracks ==
    design.failed_in \in {"_get_super_tracks", "_add_supertrack_indicators",
                          "_get_composite_tracks"}

\* C11: with one supergroup column, a column of the table, a compile that got
\* as far as the SuperTracks succeeds, has as many SuperTracks as the column
\* has distinct values, each named by its value, and the supertrack tag of
\* every row of the table is the key of the SuperTrack named by the row's value.
C11_OneSuperTrackPerValue ==
    (/\ run.pc # "compile"
     /\ Len(design.supertrack_columns) = 1
     /\ Range(design.supertrack_columns) \subseteq TableColumns(table)
     /\ design.status = "ok" \/ FailedOnSuperTracks)
        => LET c == design.supertrack_columns[1]
               values == DistinctValues(table, c)
           IN  /\ design.status = "ok"
               /\ Cardinality(DOMAIN design.super_tracks) = Cardinality(values)
               /\ {design.super_tracks[h].name : h \in DOMAIN design.super_tracks}
                     = {<<v>> : v \in values}
               /\ Len(design.details) = Len(table)
               /\ \A i \in Indices(design.details) :
                     /\ design.details[i].supertrack \in DOMAIN design.super_tracks
                     /\ design.super_tracks[design.details[i].supertrack].name
                           = <<Val(design.details[i], c)>>

\* the column lists a key is computed over, in both orders
KeyColumnLists == {<<"assay">>, <<"cell">>, <<"assay", "cell">>, <<"cell", "assay">>}

\* the value tuples of the rows of the table, nulls included
ValueTuples(rows) ==
    {RowValues(rows[i], cols) : i \in Indices(rows), cols \in KeyColumnLists}

\* C12: equal value tuples have equal keys and different tuples (another
\* value, another order, a null) different keys; a row's supertrack tag is
\* the key of its values in the declared supergroup columns, in declared
\* order, null values included, and the key a SuperTrack or a top-level
\* Overlay was created under is the key of the values it is named by.
C12_KeyIsFunctionOfTuple ==
    /\ \A u, v \in ValueTuples(table) :
          (get_hash(Items(u)) = get_hash(Items(v))) <=> (u = v)
    /\ (run.pc # "compile" /\ "supertrack" \in design.columns) =>
          /\ \A i \in Indices(design.details) :
                design.details[i].supertrack =
                    get_hash(Items(RowValues(design.details[i], design.supertrack_columns)))
          /\ \A h \in DOMAIN design.super_tracks :
                h = get_hash(Items(design.super_tracks[h].name))
    /\ (run.pc # "compile" /\ "overlay" \in design.columns
          /\ "supertrack" \notin design.columns) =>
          /\ \A i \in Indices(design.details) :
                design.details[i].overlay =
                    get_hash(Items(RowValues(design.details[i], design.overlay_columns)))
          /\ \A h \in DOMAIN design.overlay_tracks :
                h = get_hash(Items(design.overlay_tracks[h].name))

C12_Witness ==
    /\ run.pc # "compile"
    /\ "supertrack" \in design.columns
    /\ "overlay" \in design.columns
    /\ \E i, j \in Indices(design.details) :
          /\ design.details[i].supertrack = design.details[j].supertrack
          /\ design.details[i].overlay # design.details[j].overlay
          /\ IsNull(design.details[i], design.overlay_columns)

\* the columns the axis declarations of a design name
DeclaredColumns(d) ==
    Range(d.subgroup_columns) \cup Range(d.supertrack_columns)
        \cup Range(d.overlay_columns)
        \cup (IF Truthy(d.color_by) THEN {d.color_by} ELSE {})

NoContainers(d) ==
    /\ DOMAIN d.super_tracks = {}
    /\ DOMAIN d.composite_tracks = {}
    /\ DOMAIN d.overlay_tracks = {}

C14_OverlapRejected ==
    (run.pc # "compile"
        /\ Range(design.subgroup_columns) \cap Range(design.supertrack_columns) # {})
        => /\ design.status \notin {"ok", "none"}
           /\ design.failed_in = "_add_subgroupings"
           /\ NoContainers(design)
           /\ run.pc = "failed"
           /\ hub = NoHub

C14_Witness ==
    /\ run.pc = "failed"
    /\ design.subgroup_columns = <<"cell">>
    /\ design.supertrack_columns = <<"cell">>
    /\ "cell" \in TableColumns(table)
    /\ design.status = "AssertionError"

\* C15: when more group columns are declared than there are dimension slots
\* (six), the compile has failed; it has not built Composites whose dimensions
\* cover only the first six columns.
C15_TooManyGroupColumnsRejected ==
    (run.pc # "compile" /\ Len(design.subgroup_columns) > Len(DimensionSlots))
        => design.status # "ok"

\* the row carries no supertrack, composite or overlay tag
Untagged(row) == row.supertrack = NoTag /\ row.composite = NoTag /\ row.overlay = NoTag

NoAxesDeclared ==
    axes.subgroup_by = <<>> /\ axes.supergroup_by = <<>> /\ axes.overlay_by = <<>>

\* C16: in a rendered hub every row that has no supertrack, composite or
\* overlay tag is a direct child of the root; when no group, supergroup or
\* overlay column is declared, the children of the root are exactly the rows
\* of the table, each once, and no container exists.
C16_UntaggedRowsAtRoot ==
    run.pc = "done" =>
        /\ \A i \in Indices(design.details) :
              Untagged(design.details[i]) => i \in Range(hub.trackdb)
        /\ NoAxesDeclared =>
              /\ hub.trackdb = [i \in Indices(design.details) |-> i]
              /\ hub.containers = {}
              /\ NoContainers(design)

C16_Witness ==
    /\ run.pc = "done"
    /\ NoAxesDeclared
    /\ Len(design.details) = MaxRows
    /\ Len(hub.trackdb) = MaxRows

(* Claims about tracks *)

ColorInRange(t) ==
    t.color = <<>> \/ (Len(t.color) = 3 /\ \A i \in 1..3 : t.color[i] \in 0..255)

\* C17: every Track object, whether made by add_tracks, add_tracks_from_df,
\* the Track constructor or from_json, has no color or three channels each in
\* 0..255; constructing a Track, or loading a document, with a channel outside
\* that range raises a validation error and creates no track.
C17_ColorsInRange ==
    /\ [](/\ \A i \in 1..Len(heap) : ColorInRange(heap[i])
          /\ \A i \in 1..Len(restored.tracks) : ColorInRange(restored.tracks[i]))
    /\ [][/\ \A p \in InputPaths, c \in Colors :
               (ConstructTrack(p, c) /\ ~ColorInRange([color |-> c]))
                   => /\ lastOp'.op = "ValidationError"
                      /\ UNCHANGED <<heap, builders, restored>>
          /\ \A b \in ConfigBuilders, i \in 1..MaxTracks, c \in Colors :
               (FromJson(b, i, c) /\ ~ColorInRange([color |-> c]))
                   => /\ lastOp'.op = "ValidationError"
                      /\ UNCHANGED <<heap, builders, restored>>]_vars

C17_Witness ==
    /\ lastOp.op = "from_json"
    /\ Len(restored.tracks) = MaxTracks
    /\ restored.tracks[1].color = <<255, 128, 0>>
    /\ restored.tracks[2].color = <<>>

(* Claims about axis declarations *)

\* C18: group_by(cols) appends cols in order to the group list, or to the
\* supergroup list when as_supertrack is true, and overlay_by(cols) to the
\* overlay list, keeping existing entries and duplicates; the call changes
\* nothing else of the builder, no other builder and no track; and a call
\* chained on the result of group_by acts on the same builder.
C18_AxesAppendOnly ==
    [][/\ \A b \in ConfigBuilders, columns \in ColumnLists :
            /\ GroupBy(b, columns, FALSE) =>
                 /\ builders' = [builders EXCEPT ![b].group_by_cols = @ \o columns]
                 /\ heap' = heap
            /\ GroupBy(b, columns, TRUE) =>
                 /\ builders' = [builders EXCEPT ![b].supergroup_by_cols = @ \o columns]
                 /\ heap' = heap
            /\ OverlayBy(b, columns) =>
                 /\ builders' = [builders EXCEPT ![b].overlay_by_cols = @ \o columns]
                 /\ heap' = heap
       /\ \A b \in ConfigBuilders, columns \in ColumnLists, overlay \in ColumnLists :
            GroupByThenOverlayBy(b, columns, FALSE, overlay) =>
                 /\ builders' = [builders EXCEPT ![b].group_by_cols = @ \o columns,
                                                 ![b].overlay_by_cols = @ \o overlay]
                 /\ heap' = heap]_vars

C18_Witness ==
    /\ lastOp = [op |-> "group_by", a |-> "A", b |-> "A"]
    /\ builders["A"].group_by_cols = <<"cell", "assay", "cell">>
    /\ builders["A"].tracks # <<>>

(* Claims about the metadata table *)

\* the positions of the extractors of fns that return key k for path
Returning(fns, path, k) == {j \in 1..Len(fns) : k \in DOMAIN RunExtractor(fns[j], path)}

\* per key: the value of the last extractor that returns it, else the value
\* the track had
ExpectedMetadata(before, fns, path) ==
    LET returned == UNION {DOMAIN RunExtractor(fns[j], path) : j \in 1..Len(fns)}
    IN  [k \in DOMAIN before \cup returned |->
            IF Returning(fns, path, k) # {}
            THEN RunExtractor(fns[SetMax(Returning(fns, path, k))], path)[k]
            ELSE before[k]]

\* the iterations of the extraction loop of the current build, in order
Extracted == SelectSeq(events, LAMBDA e : e.step = "extract" /\ e.n = run.n)

\* C19: when extraction is over, it has run once on every track, in track
\* order, when an extractor is registered; and each key of a track's metadata
\* has the value returned by the last registered extractor that returns that
\* key, and otherwise the value the track had before extraction.
C19_LastExtractorWins ==
    run.pc = "table" =>
        LET b == builders[run.b]
            fns == b.metadata_extractors
        IN  /\ fns # <<>> => [j \in 1..Len(Extracted) |-> Extracted[j].i]
                                = [j \in 1..Len(b.tracks) |-> j]
            /\ \A i \in 1..Len(b.tracks) :
                  heap[b.tracks[i]].metadata =
                      ExpectedMetadata(sidecar.tracks[i].metadata, fns,
                                       PathToExtract(heap[b.tracks[i]]))

C19_Witness ==
    /\ run.pc = "table"
    /\ builders[run.b].metadata_extractors = <<"with_static_cell", "from_parent_dirs">>
    /\ Len(heap) = MaxTracks
    /\ sidecar.tracks[1].metadata = [k \in {"cell"} |-> "K562"]
    /\ heap[1].metadata = [k \in {"cell"} |-> "HepG2"]
    /\ sidecar.tracks[2].metadata = [k \in {"cell"} |-> "K562"]
    /\ heap[2].metadata = [k \in {"cell"} |-> "GM12878"]

\* the format tag a track is given before alias resolution
FormatTag(t) == IF t.track_type \in {NoneStr, ""} THEN t.path.suffix ELSE t.track_type

\* the spellings of the model that resolve to each alias target
AliasesOf(target) ==
    CASE target = "bigWig" -> {"bw", "BW", "bigwig", "bigWig"}
      [] target = "bigBed" -> {"bb", "bigbed", "bigBed", "BigBed", "bed"}
      [] target = "bigGenePred" -> {"gtf", "GTF", "gff", "biggenepred", "bigGenePred"}
      [] target = "narrowPeak" -> {"narrowpeak"}
      [] target = "broadPeak" -> {"broadpeak"}

AliasTargets == {"bigWig", "bigBed", "bigGenePred", "narrowPeak", "broadPeak"}

\* C20: every row of the materialized table has an ext, which is the alias
\* target of the track's track_type, or of its path suffix when track_type is
\* unset, whatever the case of the letters (bw, bigwig -> bigWig; bb, bigbed,
\* bed -> bigBed; gtf, gff -> bigGenePred), and is that value itself,
\* unchanged, when it has no alias.
C20_ExtIsResolvedAlias ==
    run.pc = "compile" =>
        /\ Len(table) = Len(builders[run.b].tracks)
        /\ \A i \in 1..Len(table) :
              LET tag == FormatTag(heap[builders[run.b].tracks[i]])
              IN  /\ \A target \in AliasTargets :
                        tag \in AliasesOf(target) => table[i].ext = target
                  /\ (\A target \in AliasTargets : tag \notin AliasesOf(target))
                        => table[i].ext = tag

C20_Witness ==
    /\ run.pc = "compile"
    /\ Len(table) = MaxTracks
    /\ heap[1].path.suffix = "BW" /\ heap[1].track_type = NoneStr /\ table[1].ext = "bigWig"
    /\ heap[2].path.suffix = "bed" /\ heap[2].track_type = "cram" /\ table[2].ext = "cram"

(* Claims about the compiled table *)

\* C21: in the table a build has compiled, no two rows have the same basename,
\* and a row whose basename no earlier row of the table has keeps its name.
C21_BasenamesDisambiguated ==
    (run.pc \in {"render", "done"} /\ design.status = "ok") =>
        /\ \A i, j \in Indices(design.details) :
              i # j => design.details[i].basename # design.details[j].basename
        /\ \A i \in Indices(design.details) :
              (\A j \in 1..(i - 1) : Basename(table[j].fn) # Basename(table[i].fn))
                  => design.details[i].name_suffix = <<>>

(* Claims about conversion failures *)

\* the calls of a converter in build n, returned or raised
ConverterCalls(n) ==
    {k \in 1..Len(events) : /\ events[k].n = n /\ events[k].i >= 1
                            /\ events[k].step \in {"convert", "convert_error"}}

\* how build n ended, or where it is
StatusOf(n) == IF n = run.n THEN run.pc ELSE first.status

\* C22: in a build whose conversion raised, because chrom_sizes is unset or
\* missing or because the converter raised for a track, the build has failed,
\* nothing of the build follows the raise (no other converter call, no
\* sidecar, no table, no compile, no render), and no track had the converter
\* called on it twice.
C22_ConversionFailureIsFatal ==
    \A n \in 1..run.n :
        /\ \A k, l \in ConverterCalls(n) : events[k].i = events[l].i => k = l
        /\ Pos("convert_error", n) # {} =>
              /\ StatusOf(n) = "failed"
              /\ Cardinality(Pos("convert_error", n)) = 1
              /\ \A k \in 1..Len(events) : \A e \in Pos("convert_error", n) :
                    events[k].n = n => k <= e
              /\ \A step \in {"sidecar", "extract", "table", "compile", "render"} :
                    Pos(step, n) = {}
              /\ n = 1 /\ run.n = 1 => sidecar = NoJson /\ design = NoDesign /\ hub = NoHub

C22_Witness ==
    /\ run.n = 1 /\ run.pc = "failed"
    /\ Len(Tracks("A")) = MaxTracks
    /\ Pos("convert", 1) # {}
    /\ \E e \in Pos("convert_error", 1) : events[e].i = MaxTracks

(* Claims about Composites *)

\* the partitions of the compiled rows: (supertrack tag, ext)
CompositePartitions(d) ==
    {<<d.details[i].supertrack, d.details[i].ext>> : i \in Indices(d.details)}

\* C23: after a compile with group or supergroup columns declared, there is
\* exactly one Composite per partition (supertrack tag, ext) of the rows, named
\* by the SuperTrack's name and the ext (by the ext alone without supergroup
\* columns); every row's composite tag is the key of the Composite of its
\* partition; and a Composite is a child of the SuperTrack of its partition and
\* not top-level when supergroup columns are declared, and top-level without
\* parent otherwise.
C23_OneCompositePerPartition ==
    (/\ run.pc \in {"render", "done"}
     /\ design.status = "ok"
     /\ design.subgroup_columns # <<>> \/ design.supertrack_columns # <<>>)
        => LET d == design
               CompositeOf(g) == {k \in DOMAIN d.composite_tracks :
                                    /\ d.composite_tracks[k].parent = g[1]
                                    /\ d.composite_tracks[k].tracktype = g[2]}
           IN  /\ Cardinality(DOMAIN d.composite_tracks) = Cardinality(CompositePartitions(d))
               /\ \A g \in CompositePartitions(d) :
                     /\ Cardinality(CompositeOf(g)) = 1
                     /\ \A k \in CompositeOf(g) :
                           d.composite_tracks[k].name =
                              IF d.supertrack_columns # <<>>
                              THEN d.super_tracks[g[1]].name \o <<g[2]>>
                              ELSE <<g[2]>>
               /\ \A i \in Indices(d.details) :
                     d.details[i].composite
                        \in CompositeOf(<<d.details[i].supertrack, d.details[i].ext>>)
               /\ \A k \in DOMAIN d.composite_tracks :
                     IF d.supertrack_columns # <<>>
                     THEN /\ d.composite_tracks[k].parent \in DOMAIN d.super_tracks
                          /\ run.pc = "done" => k \notin hub.containers
                     ELSE /\ d.composite_tracks[k].parent = NoTag
                          /\ run.pc = "done" => k \in hub.containers

C23_Witness ==
    /\ run.pc = "done"
    /\ design.supertrack_columns # <<>>
    /\ Cardinality(DOMAIN design.super_tracks) = 2
    /\ Cardinality(DOMAIN design.composite_tracks) = 2
    /\ design.details[1].composite # design.details[2].composite

(***************************************************************************)
(* Claims about dimension definitions                                      *)
(***************************************************************************)

\* the definitions a Composite keeps if add_subgroups stores them by name:
\* of several definitions with one name, the last one given
LastByName(defs) ==
    SelectSeq([i \in Indices(defs) |->
                 IF \E j \in (i + 1)..Len(defs) : defs[j].name = defs[i].name
                 THEN NoTag ELSE defs[i]],
              LAMBDA x : x # NoTag)

\* rows of the SuperTrack partition a Composite belongs to (all rows when
\* there is no supergroup axis)
PartitionRows(d, k) ==
    SelectSeq(d.details,
              LAMBDA r : d.supertrack_columns = <<>>
                         \/ r.supertrack = d.composite_tracks[k].parent)

\* defs holds one definition per group column, with the values of the
\* column among the given rows
ScopedTo(defs, rows, subgroup_by) ==
    /\ Len(defs) = Len(subgroup_by)
    /\ \A i \in Indices(subgroup_by) :
          /\ defs[i].name = subgroup_by[i]
          /\ defs[i].mapping = {Val(rows[j], subgroup_by[i]) : j \in Indices(rows)}

\* C24: each Composite carries exactly one dimension definition per declared
\* group column, whose value set is the set of distinct values of the column
\* among the rows of the Composite's own SuperTrack partition (the whole
\* table when there is no supergroup axis); read both for a Composite that
\* keeps the list it is given and for one that keeps the last definition of
\* each name
C24_DefinitionsScopedToPartition ==
    (run.pc \in {"render", "done"} /\ design.status = "ok"
        /\ design.subgroup_columns # <<>>)
    => \A k \in DOMAIN design.composite_tracks :
          \/ ScopedTo(design.composite_tracks[k].subgroups,
                      PartitionRows(design, k), design.subgroup_columns)
          \/ ScopedTo(LastByName(design.composite_tracks[k].subgroups),
                      PartitionRows(design, k), design.subgroup_columns)

(***************************************************************************)
(* Claims about Overlay creation                                           *)
(***************************************************************************)

\* the partitions of the selected rows: (supertrack tag if any, values of the
\* overlay columns)
OverlayPartitions(d) ==
    {<<IF d.supertrack_columns # <<>> THEN d.details[i].supertrack ELSE NoTag,
       RowValues(d.details[i], d.overlay_columns)>> :
        i \in {j \in Indices(d.details) : ~IsNull(d.details[j], d.overlay_columns)}}

\* no cell of a declared overlay or supergroup column is empty
AxesFilled(rows, a) ==
    /\ Range(a.overlay_by) \cup Range(a.supergroup_by) \subseteq TableColumns(rows)
    /\ \A i \in Indices(rows) : ~IsNull(rows[i], a.overlay_by \o a.supergroup_by)

\* C25: with overlay columns declared (one or several) on a table whose
\* overlay and supergroup cells are all filled, a compile that got as far as
\* the overlays does not fail, and for every partition (supertrack key if
\* any, overlay values) exactly one Overlay exists, named by the supertrack
\* name, the overlay values and 'overlay', child of that SuperTrack if there
\* is a supergroup axis and top-level otherwise.
C25_OneOverlayPerPartition ==
    (/\ run.pc \in {"render", "done", "failed"}
     /\ axes.overlay_by # <<>>
     /\ AxesFilled(table, axes)
     /\ design.status # "ok" =>
            design.failed_in \in {"_get_overlay_tracks", "_add_overlay_track_indicators"})
        => /\ design.status = "ok"
           /\ Cardinality(DOMAIN design.overlay_tracks)
                 = Cardinality(OverlayPartitions(design))
           /\ \A p \in OverlayPartitions(design) :
                 \E k \in DOMAIN design.overlay_tracks :
                    /\ design.overlay_tracks[k].parent = p[1]
                    /\ design.overlay_tracks[k].name =
                          (IF p[1] # NoTag THEN design.super_tracks[p[1]].name ELSE <<>>)
                             \o p[2] \o <<"overlay">>

(***************************************************************************)
(* Claims about colours                                                    *)
(***************************************************************************)

\* the number of distinct values of column c in rows 1..i
DistinctUpTo(rows, c, i) == Cardinality({Val(rows[j], c) : j \in 1..i})

\* C26: with a colour column declared by color_by(column, palette), every row
\* of the compiled table has the colour of the declared palette whose index
\* is the rank of the row's value among the distinct values of the column in
\* order of first appearance (so rows sharing a value share a colour).
C26_ColorsFromDeclaredPalette ==
    (/\ run.pc \in {"render", "done"}
     /\ design.status = "ok"
     /\ Truthy(builders[run.b].color_by_col))
        => \A i \in Indices(design.details) :
              design.details[i].color =
                 <<builders[run.b].color_palette,
                   DistinctUpTo(design.details, builders[run.b].color_by_col,
                                FirstWith(design.details, builders[run.b].color_by_col, i))>>

(***************************************************************************)
(* Claims about the leaves of the rendered hub                             *)
(***************************************************************************)

\* row i is a leaf of the root, of a Composite or of an Overlay
IsLeaf(h, i) ==
    \/ i \in Range(h.trackdb)
    \/ \E k \in DOMAIN h.composite_subtracks : i \in Range(h.composite_subtracks[k])
    \/ \E k \in DOMAIN h.overlay_subtracks : i \in Range(h.overlay_subtracks[k])

\* C27: once a compiled table is rendered, every row of the table is a leaf
\* of at least one container of the hub (the root, a Composite or an
\* Overlay), whatever axes are declared and whatever the row's format.
C27_NoTrackLostByRendering ==
    (run.pc = "done" /\ hub.status = "ok")
        => \A i \in Indices(design.details) : IsLeaf(hub, i)

(***************************************************************************)
(* Claims about builders after a merge                                     *)
(***************************************************************************)

\* the tracks builder b holds: path, track_type and metadata of each
HeldTracks(b, h) ==
    [i \in 1..Len(builders[b].tracks) |->
        [path |-> h[builders[b].tracks[i]].path,
         track_type |-> h[builders[b].tracks[i]].track_type,
         metadata |-> h[builders[b].tracks[i]].metadata]]

\* C28: a.merge(b) leaves b's tracks, axis lists, colour axis and extractors
\* unchanged, and no step of a later build of a (a conversion, an extraction)
\* changes the path, track_type or metadata of a track held by b.
C28_MergeDoesNotTieBuilders ==
    [][/\ builders'["B"] = builders["B"]
       /\ HeldTracks("B", heap') = HeldTracks("B", heap)]_vars

(***************************************************************************)
(* Claims about the builder after a failed conversion                      *)
(***************************************************************************)

\* the converter raised for a track during the build in progress
ConverterRaised ==
    /\ run.pc = "failed"
    /\ \E k \in 1..Len(events) :
          events[k].step = "convert_error" /\ events[k].n = run.n /\ events[k].i >= 1

\* C29: when the converter has raised for some track during build, the path
\* and track_type of every track of the builder are what they were when
\* build was called.  Read on the first build of a scenario: its tracks were
\* added by add_tracks, with a path of the input and no track_type.
C29_FailedConversionLeavesBuilder ==
    (ConverterRaised /\ run.n = 1)
        => \A i \in 1..Len(Tracks(run.b)) :
              /\ heap[Tracks(run.b)[i]].path \in InputPaths
              /\ heap[Tracks(run.b)[i]].track_type = NoneStr

(***************************************************************************)
(* Claims about added designs                                              *)
(***************************************************************************)

\* every tag column the table has holds, in every row, the key of a
\* container of the design
TagsResolve(d) ==
    \A i \in Indices(d.details) :
       /\ "supertrack" \in d.columns => d.details[i].supertrack \in DOMAIN d.super_tracks
       /\ "composite" \in d.columns => d.details[i].composite \in DOMAIN d.composite_tracks
       /\ "overlay" \in d.columns => d.details[i].overlay \in DOMAIN d.overlay_tracks

\* C30: after d1 + d2 has returned, every row's supertrack, composite and
\* overlay tag is the key of a container in the super_tracks,
\* composite_tracks and overlay_tracks of the sum, for any two compiled
\* designs.
C30_AddKeepsHierarchy ==
    (lastOp.op = "add" /\ design.status = "ok") => TagsResolve(design)

====
